---- MODULE Spec2Model ----
(***************************************************************************)
(* A state-machine model of the ecospine-back REST backend: the file       *)
(* store (EnhancedFileService), the post lifecycle and query engine        *)
(* (AdvancedPostService / AdvancedPostController), the category            *)
(* controller and the activity log.                                        *)
(*                                                                         *)
(* Every request is a sequence of steps, one per awaited I/O operation of  *)
(* its handler; a request slot holds the handler's position (pc), its      *)
(* arguments and its local variables.  The outcome of an I/O operation     *)
(* that the code handles explicitly (a failing unlink, a failing thumbnail *)
(* generation, a failing file move, a failing insert of an activity        *)
(* record) is an input of the step.                                        *)
(***************************************************************************)
EXTENDS Integers, Sequences, FiniteSets, TLC

VARIABLES posts, categories, disk, thumbs, nextPost, nextFile, nextCat, logs, req, accounts

vars == <<posts, categories, disk, thumbs, nextPost, nextFile, nextCat, logs, req, accounts>>

(***************************************************************************)
(* Bounds of the model.                                                    *)
(***************************************************************************)
MaxPosts == 1
MaxFiles == 2
MaxViews == 2
MaxCats == 2
MaxLogs == 2
MaxUsers == 2

PostIds == 1..MaxPosts
FileNames == 1..MaxFiles
CatIds == 1..MaxCats
AccountIds == 1..MaxUsers

\* user 1 is the owner, user 2 a moderator, 0 stands for no user (null)
Owner == 1
Moderator == 2
Users == {Owner, Moderator}

isOwner(u) == u = Owner

(***************************************************************************)
(* File store: EnhancedFileService                                         *)
(***************************************************************************)
maxFileSize == 10 * 1024 * 1024

allowedMimeTypes ==
  {"image/jpeg", "image/jpg", "image/png", "image/gif", "image/webp", "image/bmp"}

\* an uploaded file: its declared MIME type, its size and the length of its name
NoFile == [mimetype |-> "", size |-> 0, nameLen |-> 0]
PngFile == [mimetype |-> "image/png", size |-> 2048, nameLen |-> 8]
PdfFile == [mimetype |-> "application/pdf", size |-> 2048, nameLen |-> 8]
BigFile == [mimetype |-> "image/png", size |-> maxFileSize + 1, nameLen |-> 8]
EdgeFile == [mimetype |-> "image/bmp", size |-> maxFileSize, nameLen |-> 255]
NamelessFile == [mimetype |-> "image/gif", size |-> 1, nameLen |-> 0]

\* a faulty variant of validateFile: a file of exactly maxFileSize is refused
validateFileBelowMax(file) ==
  /\ file.size < maxFileSize
  /\ file.mimetype \in allowedMimeTypes
  /\ ~(file.nameLen = 0 \/ file.nameLen > 255)

validateFile(file) ==
  /\ ~(file.size > maxFileSize)
  /\ file.mimetype \in allowedMimeTypes
  /\ ~(file.nameLen = 0 \/ file.nameLen > 255)

isImageFile(file) ==
  file.mimetype \in allowedMimeTypes \cup {"image/svg+xml", "image/tiff"}

\* outcomes of the I/O of save: the move succeeds and the thumbnail is
\* written, the thumbnail generation fails, the move fails
SaveEnvs == {"ok", "thumbfail", "mvfail"}

\* save(file, options): the result and the directory contents afterwards.
\* The generated name (uuid + extension) is the next unused file name.
save(file, env, d, t, n) ==
  IF file = NoFile \/ ~validateFile(file) \/ env = "mvfail"
  THEN [ok |-> FALSE, fileName |-> 0, thumbnailName |-> 0, disk |-> d, thumbs |-> t, next |-> n]
  ELSE [ok |-> TRUE, fileName |-> n,
        thumbnailName |-> IF isImageFile(file) /\ env = "ok" THEN n ELSE 0,
        disk |-> d \cup {n},
        thumbs |-> IF isImageFile(file) /\ env = "ok" THEN t \cup {n} ELSE t,
        next |-> n + 1]

\* outcomes of the I/O of delete: both unlinks succeed, the unlink of the
\* original throws, the unlink of the thumbnail throws
DeleteEnvs == {"ok", "failorig", "failthumb"}

\* a faulty variant of delete: the thumbnail is left in place
deleteKeepsThumbnail(fileName, env, d, t) ==
  IF fileName = 0 \/ (fileName \in d /\ env = "failorig")
  THEN [ok |-> FALSE, returned |-> FALSE, disk |-> d, thumbs |-> t]
  ELSE [ok |-> TRUE, returned |-> TRUE, disk |-> d \ {fileName}, thumbs |-> t]

\* delete(fileName): ok is FALSE when delete throws, returned is its return value
delete(fileName, env, d, t) ==
  IF fileName = 0
  THEN [ok |-> FALSE, returned |-> FALSE, disk |-> d, thumbs |-> t]
  ELSE IF fileName \in d /\ env = "failorig"
  THEN [ok |-> FALSE, returned |-> FALSE, disk |-> d, thumbs |-> t]
  ELSE IF fileName \in t /\ env = "failthumb"
  THEN [ok |-> FALSE, returned |-> FALSE, disk |-> d \ {fileName}, thumbs |-> t]
  ELSE [ok |-> TRUE, returned |-> TRUE, disk |-> d \ {fileName}, thumbs |-> t \ {fileName}]

(***************************************************************************)
(* Posts                                                                   *)
(***************************************************************************)
\* a stored post; status "none" marks an id with no stored record
NoPost == [title |-> "", body |-> "", price |-> 0, category |-> 0, tags |-> {},
           status |-> "none", views |-> 0, featured |-> FALSE, image |-> 0,
           updatedBy |-> 0]

PostStatuses == {"active", "inactive", "deleted"}

Exists(ps, id) == ps[id].status # "none"

\* a request body: "" / -1 / 0 / hasTags = FALSE mark a field that is not sent
NoData == [title |-> "", body |-> "", price |-> -1, category |-> 0,
           hasTags |-> FALSE, tags |-> <<>>, status |-> "", featured |-> "",
           views |-> -1]

\* String.prototype.trim on the tag strings of the model
Trim(str) ==
  CASE str = " a" -> "a"
    [] str = "a " -> "a"
    [] str = " b" -> "b"
    [] str = " " -> ""
    [] OTHER -> str

\* tags.split(',').map(tag => tag.trim()).filter(tag => tag); the comma
\* separated string is given as the sequence of its items
ParseTags(items) == {Trim(items[i]) : i \in DOMAIN items} \ {""}

\* express-validator isBoolean / mongoose boolean cast of a form field
CastBoolean(str) == str \in {"true", "1"}

\* query options of getAll and search: "" / 0 mark an option that is not given
NoOpts == [status |-> "", search |-> "", category |-> 0, minPrice |-> 0,
           maxPrice |-> 0, hasTags |-> FALSE, tags |-> <<>>, featured |-> "",
           page |-> 1, limit |-> 10, sortOrder |-> "desc"]

(***************************************************************************)
(* Categories: categorySchema                                              *)
(***************************************************************************)
\* a name or a slug is the sequence of its characters; <<>> is the empty
\* string, which also stands for a field that is not sent
NoCat == [name |-> <<>>, slug |-> <<>>, parentCategory |-> 0, isActive |-> FALSE,
          updatedBy |-> 0]

CatExists(cs, id) == cs[id].name # <<>>

\* a request body of the category routes; isActive "" is a field not sent,
\* parentCategory 0 is null
NoCatData == [name |-> <<>>, slug |-> <<>>, parentCategory |-> 0, isActive |-> ""]

\* String.prototype.toLowerCase on the characters of the model
toLowerCase(c) ==
  CASE c = "B" -> "b"
    [] c = "S" -> "s"
    [] OTHER -> c

\* \s and \w of the regular expressions, on the characters of the model
IsSpace(c) == c = " "
IsWord(c) == c \in {"b", "d", "e", "f", "o", "s", "t", "B", "S", "_", "2"}
IsSeparator(c) == IsSpace(c) \/ c = "_" \/ c = "-"

RECURSIVE DropWhile(_, _)
DropWhile(seq, C) ==
  IF seq # <<>> /\ Head(seq) \in C THEN DropWhile(Tail(seq), C) ELSE seq

RECURSIVE Reverse(_)
Reverse(seq) == IF seq = <<>> THEN <<>> ELSE Append(Reverse(Tail(seq)), Head(seq))

\* the characters of C removed from both ends
StripEnds(seq, C) == Reverse(DropWhile(Reverse(DropWhile(seq, C)), C))

\* replace(/[\s_-]+/g, "-")
RECURSIVE CollapseSeparators(_)
CollapseSeparators(seq) ==
  IF seq = <<>> THEN <<>>
  ELSE IF IsSeparator(Head(seq))
  THEN <<"-">> \o CollapseSeparators(DropWhile(seq, {" ", "_", "-"}))
  ELSE <<Head(seq)>> \o CollapseSeparators(Tail(seq))

KeepSlugChar(c) == IsWord(c) \/ IsSpace(c) \/ c = "-"

\* the slug the pre('save') hook derives from the name
Slugify(name) ==
  LET lower == [i \in DOMAIN name |-> toLowerCase(name[i])]
      trimmed == StripEnds(lower, {" "})
      kept == SelectSeq(trimmed, KeepSlugChar)
      hyphened == CollapseSeparators(kept)
  IN StripEnds(hyphened, {"-"})

(***************************************************************************)
(* Users: userSchema                                                       *)
(***************************************************************************)
\* a stored password: the text it was made from, and whether it is the
\* bcrypt hash of that text or the text itself
NoPassword == [hashed |-> FALSE, text |-> <<>>]

\* a stored user; role "" marks an id with no stored record; lastLogin is
\* whether a login has set it
NoAccount == [username |-> "", password |-> NoPassword, role |-> "", isActive |-> FALSE,
              lastLogin |-> FALSE]

AccountExists(as, a) == as[a].role # ""

\* bcrypt.hash(password, 12)
hash(password) == [hashed |-> TRUE, text |-> password]

\* a document's password as its text was assigned, before any hashing
plain(password) == [hashed |-> FALSE, text |-> password]

\* comparePassword: bcrypt.compare(candidatePassword, this.password), which
\* is false for a stored value that is not a hash
comparePassword(stored, candidatePassword) ==
  stored.hashed /\ stored.text = candidatePassword

canManageUsers(u) == u = Owner

\* a request body of the auth routes; "" and <<>> mark a field that is not
\* sent; a password is the sequence of its characters; role is the body's
\* own role key, setRole the role key of a $set object in the body
NoUserData == [username |-> "", password |-> <<>>, isActive |-> "", role |-> "",
               setRole |-> ""]

IsLower(c) == c \in {"a", "c", "d", "e", "i", "k", "m", "n", "r", "t", "w"}
IsUpper(c) == c \in {"A", "S"}
IsDigit(c) == c \in {"1", "2"}

\* isLength({ min: 6, max: 50 }) and matches(/^(?=.*[a-z])(?=.*[A-Z])(?=.*\d)/)
StrongPassword(pw) ==
  /\ Len(pw) >= 6 /\ Len(pw) <= 50
  /\ \E i \in DOMAIN pw : IsLower(pw[i])
  /\ \E i \in DOMAIN pw : IsUpper(pw[i])
  /\ \E i \in DOMAIN pw : IsDigit(pw[i])

validateLogin(d) == d.username # "" /\ Len(d.password) >= 6

validateCreateModerator(d) ==
  /\ Len(d.username) >= 3 /\ Len(d.username) <= 30
  /\ StrongPassword(d.password)

validateUpdateModerator(d) ==
  /\ d.username # "" => (Len(d.username) >= 3 /\ Len(d.username) <= 30)
  /\ d.password # <<>> => StrongPassword(d.password)
  /\ d.isActive \in {"", "true", "false"}

(***************************************************************************)
(* Activity log: activityLogSchema and logActivity                         *)
(***************************************************************************)
LogActions ==
  {"LOGIN", "LOGOUT", "LOGIN_FAILED", "POST_CREATED", "POST_UPDATED",
   "POST_DELETED", "POST_VIEWED", "USER_CREATED", "USER_UPDATED",
   "USER_ACTIVATED", "USER_DEACTIVATED", "FILE_UPLOADED", "FILE_DELETED",
   "SYSTEM_ACCESS", "PERMISSION_DENIED"}

LogResources == {"post", "user", "file", "system"}

\* the schema's validation of an activity record (required user, enumerated
\* action and resource, required ipAddress)
LogValid(data) ==
  /\ data.user # 0
  /\ data.action \in LogActions
  /\ data.resource \in LogResources
  /\ data.ipAddress # ""

LogData(u, action, resource, resourceId, details) ==
  [user |-> u, action |-> action, resource |-> resource,
   resourceId |-> resourceId, details |-> details, ipAddress |-> "ip"]

NoLogData == LogData(0, "", "", 0, "")

\* outcomes of the insert of an activity record
LogEnvs == {"ok", "fail"}

\* a faulty variant of logActivity: the catch block rethrows
logActivityRethrows(data, env, ls) ==
  IF LogValid(data) /\ env = "ok"
  THEN [returned |-> "log", threw |-> FALSE, logs |-> Append(ls, data)]
  ELSE [returned |-> "", threw |-> TRUE, logs |-> ls]

\* logActivity(data): the value it returns ("log" or "null"), whether it
\* raises (it never does, the catch swallows every exception) and the
\* collection afterwards
logActivity(data, env, ls) ==
  IF LogValid(data) /\ env = "ok"
  THEN [returned |-> "log", threw |-> FALSE, logs |-> Append(ls, data)]
  ELSE [returned |-> "null", threw |-> FALSE, logs |-> ls]

(***************************************************************************)
(* Request slots                                                           *)
(***************************************************************************)
Snapshot == [posts |-> posts, categories |-> categories, disk |-> disk,
             thumbs |-> thumbs, logs |-> logs, accounts |-> accounts]

NoSnapshot == [posts |-> [i \in PostIds |-> NoPost],
               categories |-> [c \in CatIds |-> NoCat],
               disk |-> {}, thumbs |-> {}, logs |-> <<>>,
               accounts |-> [a \in AccountIds |-> NoAccount]]

\* op: the handler; pc: its position; user, id, data, image, flag, opts, cdata:
\* its arguments; found: the document its find returned; fileName: the name
\* save returned to it; code: the HTTP status of its response; err: the
\* exception that ended it; docs, matched: the page and the full result of a
\* query; udata, account: the body of a request of the auth routes and the
\* user document its find returned; token: the id of the user whose token
\* the request presents, or that the login response carries; sort: the sort
\* key the query hands to paginate; ldata, logged: the record it gave
\* logActivity and what logActivity returned to it; returned: what a direct
\* call of the file store's delete returned; warn: a best-effort file
\* deletion of the handler failed and was only reported (console.warn);
\* pre: the stores when the request started
Idle == [op |-> "none", pc |-> "idle", user |-> 0, id |-> 0, data |-> NoData,
         image |-> NoFile, flag |-> "", opts |-> NoOpts, cdata |-> NoCatData,
         found |-> NoPost, fileName |-> 0, code |-> 0, err |-> "",
         docs |-> {}, matched |-> {}, total |-> 0, logged |-> "", warn |-> FALSE,
         ldata |-> NoLogData, returned |-> FALSE, sort |-> "",
         udata |-> NoUserData, account |-> NoAccount, token |-> 0,
         pre |-> NoSnapshot]

Free(s) == req[s].pc \in {"idle", "done"}

Begin(s, op, pc, u, id) ==
  [Idle EXCEPT !.op = op, !.pc = pc, !.user = u, !.id = id, !.pre = Snapshot]

\* the handler responds with status code c
Respond(r, c) == [r EXCEPT !.pc = "done", !.code = c]

\* the handler passes an exception to next(error); errorHandler answers
\* err.statusCode || 500 for an Error or ReferenceError
Throw(r, e) == [r EXCEPT !.pc = "done", !.code = 500, !.err = e]

Init ==
  /\ posts = [i \in PostIds |-> NoPost]
  /\ categories = [c \in CatIds |-> NoCat]
  /\ disk = {}
  /\ thumbs = {}
  /\ accounts = [a \in AccountIds |-> NoAccount]
  /\ nextPost = 1
  /\ nextFile = 1
  /\ nextCat = 1
  /\ logs = <<>>
  /\ req = [s \in {1, 2} |-> Idle]

(***************************************************************************)
(* Logging step of the handlers                                            *)
(***************************************************************************)
\* the last step of a handler: await ActivityLog.logActivity(data), whose
\* result is not looked at, then the success response with status code c;
\* an exception of the call would reach the handler's catch and next(error)
LogAndRespond(s, data, env, c) ==
  /\ env = "ok" => Len(logs) < MaxLogs
  /\ LET r == logActivity(data, env, logs) IN
       /\ logs' = r.logs
       /\ req' = [req EXCEPT ![s] =
            IF r.threw THEN [Throw(@, "Error") EXCEPT !.ldata = data]
            ELSE [Respond(@, c) EXCEPT !.logged = r.returned, !.ldata = data]]

(***************************************************************************)
(* Request validation: validatePost, validatePostUpdate                    *)
(***************************************************************************)
validatePost(data) ==
  /\ Len(data.title) >= 3 /\ Len(data.title) <= 100
  /\ Len(data.body) >= 10 /\ Len(data.body) <= 1000
  /\ data.price >= 0
  /\ data.category # 0
  /\ data.featured \in {"", "true", "false", "1", "0"}

\* a faulty variant of validatePostUpdate: any status is admitted
validatePostUpdateAnyStatus(data) ==
  /\ data.title # "" => Len(data.title) >= 3 /\ Len(data.title) <= 100
  /\ data.body # "" => Len(data.body) >= 10 /\ Len(data.body) <= 1000
  /\ data.price >= -1
  /\ data.featured \in {"", "true", "false", "1", "0"}

validatePostUpdate(data) ==
  /\ data.title # "" => Len(data.title) >= 3 /\ Len(data.title) <= 100
  /\ data.body # "" => Len(data.body) >= 10 /\ Len(data.body) <= 1000
  /\ data.price >= -1
  /\ data.featured \in {"", "true", "false", "1", "0"}
  /\ data.status \in {"", "active", "inactive"}

\* the post schema's validators (mongoose): the status enum, price min 0,
\* views a number (a value that does not cast is given as -2)
PostSchemaValid(data) ==
  /\ data.status \in {""} \cup PostStatuses
  /\ data.views # -2

(***************************************************************************)
(* AdvancedPostController.create / AdvancedPostService.create              *)
(***************************************************************************)
StartCreate(s, u, data, image) ==
  /\ Free(s)
  /\ nextPost <= MaxPosts
  /\ image # NoFile => nextFile <= MaxFiles
  /\ req' = [req EXCEPT ![s] =
       IF ~validatePost(data)
       THEN [Respond(Begin(s, "create", "done", u, 0), 400) EXCEPT
               !.data = data, !.image = image]
       ELSE [Begin(s, "create", IF image # NoFile THEN "c_save" ELSE "c_db", u, 0)
               EXCEPT !.data = data, !.image = image]]
  /\ UNCHANGED <<posts, categories, disk, thumbs, nextPost, nextFile, nextCat, logs, accounts>>

\* the catch block of create.  fileInfo is declared with let inside the try
\* block, so it is not in scope in the catch block: when image is given,
\* evaluating `image && fileInfo` raises a ReferenceError before
\* enhancedFileService.delete is reached, and that error leaves create; when
\* image is null the condition short-circuits and the wrapped Error is thrown.
CreateCatch(r) ==
  IF r.image # NoFile THEN Throw(r, "ReferenceError") ELSE Throw(r, "Error")

CreateSave(s, env) ==
  /\ req[s].pc = "c_save"
  /\ LET r == save(req[s].image, env, disk, thumbs, nextFile) IN
       /\ disk' = r.disk
       /\ thumbs' = r.thumbs
       /\ nextFile' = r.next
       /\ req' = [req EXCEPT ![s] =
            IF r.ok
            THEN [@ EXCEPT !.pc = "c_db", !.fileName = r.fileName]
            ELSE CreateCatch(@)]
  /\ UNCHANGED <<posts, categories, nextPost, nextCat, logs, accounts>>

\* the document postModel.create stores for a request body
NewPost(data, fileName) ==
  [title |-> data.title, body |-> data.body, price |-> data.price,
   category |-> data.category,
   tags |-> IF data.hasTags THEN ParseTags(data.tags) ELSE {},
   status |-> IF data.status = "" THEN "active" ELSE data.status,
   views |-> IF data.views < 0 THEN 0 ELSE data.views,
   featured |-> CastBoolean(data.featured),
   image |-> fileName,
   updatedBy |-> 0]

CreateDb(s) ==
  /\ req[s].pc = "c_db"
  /\ IF PostSchemaValid(req[s].data) /\ nextPost <= MaxPosts
     THEN /\ posts' = [posts EXCEPT ![nextPost] = NewPost(req[s].data, req[s].fileName)]
          /\ nextPost' = nextPost + 1
          /\ req' = [req EXCEPT ![s] = [@ EXCEPT !.pc = "c_log", !.id = nextPost]]
     ELSE /\ req' = [req EXCEPT ![s] = CreateCatch(@)]
          /\ UNCHANGED <<posts, nextPost>>
  /\ UNCHANGED <<categories, disk, thumbs, nextFile, nextCat, logs, accounts>>

CreateLog(s, env) ==
  /\ req[s].pc = "c_log"
  /\ LogAndRespond(s, LogData(req[s].user, "POST_CREATED", "post", req[s].id,
                              IF req[s].image # NoFile THEN "hasImage" ELSE "noImage"),
                   env, 201)
  /\ UNCHANGED <<posts, categories, disk, thumbs, nextPost, nextFile, nextCat, accounts>>

(***************************************************************************)
(* AdvancedPostController.getOne / AdvancedPostService.getOne              *)
(***************************************************************************)
\* postModel.findOne({ _id: id, status: { $ne: 'deleted' } })
FindNotDeleted(ps, id) ==
  IF Exists(ps, id) /\ ps[id].status # "deleted" THEN ps[id] ELSE NoPost

\* a faulty variant of FindDeleted: the status is not part of the filter
FindDeletedAnyStatus(ps, id) == ps[id]

\* postModel.findOne({ _id: id, status: 'deleted' })
FindDeleted(ps, id) ==
  IF Exists(ps, id) /\ ps[id].status = "deleted" THEN ps[id] ELSE NoPost

\* postModel.findById(id)
FindById(ps, id) == ps[id]

\* u = 0 is a request without credentials (optionalAuth); flag is the
\* trackView query parameter
StartGetOne(s, u, id, flag) ==
  /\ Free(s)
  /\ flag = "true" => posts[id].views < MaxViews
  /\ req' = [req EXCEPT ![s] = [Begin(s, "getOne", "g_find", u, id) EXCEPT !.flag = flag]]
  /\ UNCHANGED <<posts, categories, disk, thumbs, nextPost, nextFile, nextCat, logs, accounts>>

GetOneFind(s) ==
  /\ req[s].pc = "g_find"
  /\ LET post == FindNotDeleted(posts, req[s].id) IN
       req' = [req EXCEPT ![s] =
         IF post = NoPost THEN Respond(@, 404)
         ELSE IF req[s].flag = "true" THEN [@ EXCEPT !.pc = "g_save", !.found = post]
         ELSE [Respond(@, 200) EXCEPT !.found = post]]
  /\ UNCHANGED <<posts, categories, disk, thumbs, nextPost, nextFile, nextCat, logs, accounts>>

\* a faulty variant of TrackView: the counter is written back unchanged
TrackViewLost(post) == post.views

\* post.views += 1; await post.save(): the document that was read, with its
\* views raised by one, is written back (only the modified path views)
TrackView(post) == post.views + 1

GetOneSave(s) ==
  /\ req[s].pc = "g_save"
  /\ IF Exists(posts, req[s].id)
     THEN /\ posts' = [posts EXCEPT ![req[s].id].views = TrackView(req[s].found)]
          /\ req' = [req EXCEPT ![s] =
               IF req[s].user # 0 THEN [@ EXCEPT !.pc = "g_log"] ELSE Respond(@, 200)]
     ELSE /\ req' = [req EXCEPT ![s] = Throw(@, "Error")]
          /\ UNCHANGED posts
  /\ UNCHANGED <<categories, disk, thumbs, nextPost, nextFile, nextCat, logs, accounts>>

GetOneLog(s, env) ==
  /\ req[s].pc = "g_log"
  /\ LogAndRespond(s, LogData(req[s].user, "POST_VIEWED", "post", req[s].id, "view"),
                   env, 200)
  /\ UNCHANGED <<posts, categories, disk, thumbs, nextPost, nextFile, nextCat, accounts>>

(***************************************************************************)
(* AdvancedPostController.edit / AdvancedPostService.edit                  *)
(***************************************************************************)
StartEdit(s, u, id, data, image) ==
  /\ Free(s)
  /\ image # NoFile => nextFile <= MaxFiles
  /\ data.views >= 0 => data.views <= MaxViews
  /\ req' = [req EXCEPT ![s] =
       IF ~validatePostUpdate(data)
       THEN [Respond(Begin(s, "edit", "done", u, id), 400) EXCEPT
               !.data = data, !.image = image]
       ELSE [Begin(s, "edit", "e_find", u, id) EXCEPT !.data = data, !.image = image]]
  /\ UNCHANGED <<posts, categories, disk, thumbs, nextPost, nextFile, nextCat, logs, accounts>>

\* a faulty variant of EditFind: the post is looked up whatever its status
\* and a missing one is not refused
EditFindUnchecked(s) ==
  /\ req[s].pc = "e_find"
  /\ req' = [req EXCEPT ![s] =
       [@ EXCEPT !.found = FindById(posts, req[s].id),
                 !.pc = IF req[s].image # NoFile THEN "e_save" ELSE "e_update"]]
  /\ UNCHANGED <<posts, categories, disk, thumbs, nextPost, nextFile, nextCat, logs, accounts>>

EditFind(s) ==
  /\ req[s].pc = "e_find"
  /\ LET existingPost == FindNotDeleted(posts, req[s].id) IN
       req' = [req EXCEPT ![s] =
         IF existingPost = NoPost THEN Throw(@, "Error")
         ELSE [@ EXCEPT !.found = existingPost,
                        !.pc = IF req[s].image # NoFile THEN "e_save" ELSE "e_update"]]
  /\ UNCHANGED <<posts, categories, disk, thumbs, nextPost, nextFile, nextCat, logs, accounts>>

EditSave(s, env) ==
  /\ req[s].pc = "e_save"
  /\ LET r == save(req[s].image, env, disk, thumbs, nextFile) IN
       /\ disk' = r.disk
       /\ thumbs' = r.thumbs
       /\ nextFile' = r.next
       /\ req' = [req EXCEPT ![s] =
            IF r.ok
            THEN [@ EXCEPT !.fileName = r.fileName,
                           !.pc = IF req[s].found.image # 0 THEN "e_delold" ELSE "e_update"]
            ELSE Throw(@, "Error")]
  /\ UNCHANGED <<posts, categories, nextPost, nextCat, logs, accounts>>

\* a faulty variant of EditDeleteOld: the previous image is not deleted
EditDeleteOldSkipped(s, env) ==
  /\ req[s].pc = "e_delold"
  /\ req' = [req EXCEPT ![s] = [@ EXCEPT !.pc = "e_update"]]
  /\ UNCHANGED <<posts, categories, disk, thumbs, nextPost, nextFile, nextCat, logs, accounts>>

\* try { await enhancedFileService.delete(existingPost.image) } catch { warn }
EditDeleteOld(s, env) ==
  /\ req[s].pc = "e_delold"
  /\ LET r == delete(req[s].found.image, env, disk, thumbs) IN
       /\ disk' = r.disk
       /\ thumbs' = r.thumbs
       /\ req' = [req EXCEPT ![s] = [@ EXCEPT !.pc = "e_update", !.warn = ~r.ok]]
  /\ UNCHANGED <<posts, categories, nextPost, nextFile, nextCat, logs, accounts>>

\* the stored post after findByIdAndUpdate(id, updateData): every field the
\* body carries is set, updatedBy is the user, image is the new file's name
ApplyUpdate(post, data, u, fileName) ==
  [post EXCEPT
     !.title = IF data.title # "" THEN data.title ELSE @,
     !.body = IF data.body # "" THEN data.body ELSE @,
     !.price = IF data.price >= 0 THEN data.price ELSE @,
     !.category = IF data.category # 0 THEN data.category ELSE @,
     !.tags = IF data.hasTags THEN ParseTags(data.tags) ELSE @,
     !.status = IF data.status # "" THEN data.status ELSE @,
     !.featured = IF data.featured # "" THEN CastBoolean(data.featured) ELSE @,
     !.views = IF data.views >= 0 THEN data.views ELSE @,
     !.image = IF fileName # 0 THEN fileName ELSE @,
     !.updatedBy = u]

EditUpdate(s) ==
  /\ req[s].pc = "e_update"
  /\ IF ~PostSchemaValid(req[s].data)
     THEN /\ req' = [req EXCEPT ![s] = Throw(@, "Error")]
          /\ UNCHANGED posts
     ELSE IF ~Exists(posts, req[s].id)
     THEN /\ req' = [req EXCEPT ![s] = Respond(@, 404)]
          /\ UNCHANGED posts
     ELSE /\ posts' = [posts EXCEPT ![req[s].id] =
               ApplyUpdate(@, req[s].data, req[s].user, req[s].fileName)]
          /\ req' = [req EXCEPT ![s] = [@ EXCEPT !.pc = "e_log"]]
  /\ UNCHANGED <<categories, disk, thumbs, nextPost, nextFile, nextCat, logs, accounts>>

EditLog(s, env) ==
  /\ req[s].pc = "e_log"
  /\ LogAndRespond(s, LogData(req[s].user, "POST_UPDATED", "post", req[s].id,
                              IF req[s].image # NoFile THEN "hasNewImage" ELSE "noNewImage"),
                   env, 200)
  /\ UNCHANGED <<posts, categories, disk, thumbs, nextPost, nextFile, nextCat, accounts>>

(***************************************************************************)
(* AdvancedPostController.delete / AdvancedPostService.delete, hardDelete  *)
(***************************************************************************)
\* a faulty variant of the controller's choice: the role is not looked at
StartDeleteAnyRole(s, u, id, flag) ==
  /\ Free(s)
  /\ req' = [req EXCEPT ![s] =
       [Begin(s, "delete", IF flag = "true" THEN "h_find" ELSE "d_find", u, id)
          EXCEPT !.flag = flag]]
  /\ UNCHANGED <<posts, categories, disk, thumbs, nextPost, nextFile, nextCat, logs, accounts>>

\* flag is the hard query parameter
StartDelete(s, u, id, flag) ==
  /\ Free(s)
  /\ req' = [req EXCEPT ![s] =
       [Begin(s, "delete", IF flag = "true" /\ isOwner(u) THEN "h_find" ELSE "d_find", u, id)
          EXCEPT !.flag = flag]]
  /\ UNCHANGED <<posts, categories, disk, thumbs, nextPost, nextFile, nextCat, logs, accounts>>

DeleteFind(s) ==
  /\ req[s].pc = "d_find"
  /\ LET post == FindNotDeleted(posts, req[s].id) IN
       req' = [req EXCEPT ![s] =
         IF post = NoPost THEN Respond(@, 404)
         ELSE [@ EXCEPT !.found = post, !.pc = "d_update"]]
  /\ UNCHANGED <<posts, categories, disk, thumbs, nextPost, nextFile, nextCat, logs, accounts>>

\* a faulty variant of SoftDelete: the reference to the image is dropped
SoftDeleteDropsImage(post, u) ==
  [post EXCEPT !.status = "deleted", !.updatedBy = u, !.image = 0]

\* findByIdAndUpdate(id, { status: 'deleted', updatedBy: userId })
SoftDelete(post, u) == [post EXCEPT !.status = "deleted", !.updatedBy = u]

DeleteUpdate(s) ==
  /\ req[s].pc = "d_update"
  /\ IF Exists(posts, req[s].id)
     THEN /\ posts' = [posts EXCEPT ![req[s].id] = SoftDelete(@, req[s].user)]
          /\ req' = [req EXCEPT ![s] = [@ EXCEPT !.pc = "d_log"]]
     ELSE /\ req' = [req EXCEPT ![s] = Respond(@, 404)]
          /\ UNCHANGED posts
  /\ UNCHANGED <<categories, disk, thumbs, nextPost, nextFile, nextCat, logs, accounts>>

HardDeleteFind(s) ==
  /\ req[s].pc = "h_find"
  /\ LET post == FindById(posts, req[s].id) IN
       req' = [req EXCEPT ![s] =
         IF post = NoPost THEN Respond(@, 404)
         ELSE [@ EXCEPT !.found = post,
                        !.pc = IF post.image # 0 THEN "h_delfile" ELSE "h_remove"]]
  /\ UNCHANGED <<posts, categories, disk, thumbs, nextPost, nextFile, nextCat, logs, accounts>>

\* try { await enhancedFileService.delete(post.image) } catch { warn }
HardDeleteFile(s, env) ==
  /\ req[s].pc = "h_delfile"
  /\ LET r == delete(req[s].found.image, env, disk, thumbs) IN
       /\ disk' = r.disk
       /\ thumbs' = r.thumbs
       /\ req' = [req EXCEPT ![s] = [@ EXCEPT !.pc = "h_remove", !.warn = ~r.ok]]
  /\ UNCHANGED <<posts, categories, nextPost, nextFile, nextCat, logs, accounts>>

\* a faulty variant of HardDeleteRemove: a failed file deletion keeps the record
HardDeleteRemoveUnlessWarned(s) ==
  /\ req[s].pc = "h_remove"
  /\ IF Exists(posts, req[s].id) /\ ~req[s].warn
     THEN /\ posts' = [posts EXCEPT ![req[s].id] = NoPost]
          /\ req' = [req EXCEPT ![s] = [@ EXCEPT !.pc = "d_log"]]
     ELSE /\ req' = [req EXCEPT ![s] = Respond(@, 404)]
          /\ UNCHANGED posts
  /\ UNCHANGED <<categories, disk, thumbs, nextPost, nextFile, nextCat, logs, accounts>>

\* postModel.findByIdAndDelete(id)
HardDeleteRemove(s) ==
  /\ req[s].pc = "h_remove"
  /\ IF Exists(posts, req[s].id)
     THEN /\ posts' = [posts EXCEPT ![req[s].id] = NoPost]
          /\ req' = [req EXCEPT ![s] = [@ EXCEPT !.pc = "d_log"]]
     ELSE /\ req' = [req EXCEPT ![s] = Respond(@, 404)]
          /\ UNCHANGED posts
  /\ UNCHANGED <<categories, disk, thumbs, nextPost, nextFile, nextCat, logs, accounts>>

\* deleteType: hard === 'true' ? 'hard' : 'soft'
DeleteLog(s, env) ==
  /\ req[s].pc = "d_log"
  /\ LogAndRespond(s, LogData(req[s].user, "POST_DELETED", "post", req[s].id,
                              IF req[s].flag = "true" THEN "hard" ELSE "soft"),
                   env, 200)
  /\ UNCHANGED <<posts, categories, disk, thumbs, nextPost, nextFile, nextCat, accounts>>

(***************************************************************************)
(* AdvancedPostController.restore / AdvancedPostService.restore            *)
(***************************************************************************)
StartRestore(s, u, id) ==
  /\ Free(s)
  /\ req' = [req EXCEPT ![s] = Begin(s, "restore", "r_find", u, id)]
  /\ UNCHANGED <<posts, categories, disk, thumbs, nextPost, nextFile, nextCat, logs, accounts>>

RestoreFind(s) ==
  /\ req[s].pc = "r_find"
  /\ LET post == FindDeleted(posts, req[s].id) IN
       req' = [req EXCEPT ![s] =
         IF post = NoPost THEN Throw(@, "Error")
         ELSE [@ EXCEPT !.found = post, !.pc = "r_update"]]
  /\ UNCHANGED <<posts, categories, disk, thumbs, nextPost, nextFile, nextCat, logs, accounts>>

\* findByIdAndUpdate(id, { status: 'active', updatedBy: userId }); a null
\* result makes the controller's post._id raise a TypeError
Restored(post, u) == [post EXCEPT !.status = "active", !.updatedBy = u]

RestoreUpdate(s) ==
  /\ req[s].pc = "r_update"
  /\ IF Exists(posts, req[s].id)
     THEN /\ posts' = [posts EXCEPT ![req[s].id] = Restored(@, req[s].user)]
          /\ req' = [req EXCEPT ![s] = [@ EXCEPT !.pc = "r_log"]]
     ELSE /\ req' = [req EXCEPT ![s] = Throw(@, "TypeError")]
          /\ UNCHANGED posts
  /\ UNCHANGED <<categories, disk, thumbs, nextPost, nextFile, nextCat, logs, accounts>>

RestoreLog(s, env) ==
  /\ req[s].pc = "r_log"
  /\ LogAndRespond(s, LogData(req[s].user, "POST_UPDATED", "post", req[s].id, "restored"),
                   env, 200)
  /\ UNCHANGED <<posts, categories, disk, thumbs, nextPost, nextFile, nextCat, accounts>>

(***************************************************************************)
(* AdvancedPostController.toggleFeatured / AdvancedPostService             *)
(***************************************************************************)
StartToggleFeatured(s, u, id) ==
  /\ Free(s)
  /\ req' = [req EXCEPT ![s] = Begin(s, "toggleFeatured", "t_find", u, id)]
  /\ UNCHANGED <<posts, categories, disk, thumbs, nextPost, nextFile, nextCat, logs, accounts>>

ToggleFind(s) ==
  /\ req[s].pc = "t_find"
  /\ LET post == FindNotDeleted(posts, req[s].id) IN
       req' = [req EXCEPT ![s] =
         IF post = NoPost THEN Throw(@, "Error")
         ELSE [@ EXCEPT !.found = post, !.pc = "t_update"]]
  /\ UNCHANGED <<posts, categories, disk, thumbs, nextPost, nextFile, nextCat, logs, accounts>>

\* a variant of Toggled that flips the stored value, as an atomic update
\* would, rather than the value that was read
ToggledStored(stored, post, u) ==
  [stored EXCEPT !.featured = ~stored.featured, !.updatedBy = u]

\* a faulty variant of Toggled: featured is set, not negated
ToggledOn(stored, post, u) == [stored EXCEPT !.featured = TRUE, !.updatedBy = u]

\* findByIdAndUpdate(id, { featured: !post.featured, updatedBy: userId }),
\* post being the document that was read
Toggled(stored, post, u) == [stored EXCEPT !.featured = ~post.featured, !.updatedBy = u]

ToggleUpdate(s) ==
  /\ req[s].pc = "t_update"
  /\ IF Exists(posts, req[s].id)
     THEN /\ posts' = [posts EXCEPT ![req[s].id] = Toggled(@, req[s].found, req[s].user)]
          /\ req' = [req EXCEPT ![s] = [@ EXCEPT !.pc = "t_log"]]
     ELSE /\ req' = [req EXCEPT ![s] = Throw(@, "TypeError")]
          /\ UNCHANGED posts
  /\ UNCHANGED <<categories, disk, thumbs, nextPost, nextFile, nextCat, logs, accounts>>

ToggleLog(s, env) ==
  /\ req[s].pc = "t_log"
  /\ LogAndRespond(s, LogData(req[s].user, "POST_UPDATED", "post", req[s].id, "featured"),
                   env, 200)
  /\ UNCHANGED <<posts, categories, disk, thumbs, nextPost, nextFile, nextCat, accounts>>

(***************************************************************************)
(* Post query engine: AdvancedPostService.getAll and search                *)
(***************************************************************************)
\* the price condition of the query: lo / hi = -1 when the bound is not set
PriceFilter(minPrice, maxPrice) ==
  [lo |-> IF minPrice > 0 THEN minPrice ELSE -1,
   hi |-> IF maxPrice > 0 THEN maxPrice ELSE -1]

\* a faulty variant of MatchPrice: the bounds are exclusive ($gt, $lt)
MatchPriceExclusive(price, f) ==
  /\ f.lo # -1 => price > f.lo
  /\ f.hi # -1 => price < f.hi

\* { $gte: lo, $lte: hi } on a stored price
MatchPrice(price, f) ==
  /\ f.lo # -1 => price >= f.lo
  /\ f.hi # -1 => price <= f.hi

\* $text: { $search: term } over the text index on title, body and tags
TextMatch(post, term) == term \in {post.title, post.body} \cup post.tags

\* tags.split(',').map(tag => tag.trim()) of the tags option (no filter)
QueryTags(items) == {Trim(items[i]) : i \in DOMAIN items}

\* the status of the query getAll builds: options.status, 'active' by default
QueryStatus(opts) == IF opts.status = "" THEN "active" ELSE opts.status

\* a faulty variant of MatchGetAll: the query carries no status
MatchGetAllAnyStatus(post, opts) ==
  /\ opts.search # "" => TextMatch(post, opts.search)
  /\ opts.category # 0 => post.category = opts.category
  /\ MatchPrice(post.price, PriceFilter(opts.minPrice, opts.maxPrice))
  /\ opts.hasTags /\ opts.tags # <<>> => post.tags \cap QueryTags(opts.tags) # {}
  /\ opts.featured # "" => post.featured = (opts.featured = "true")

\* does the stored post match the query getAll builds from the options
MatchGetAll(post, opts) ==
  /\ post.status = QueryStatus(opts)
  /\ opts.search # "" => TextMatch(post, opts.search)
  /\ opts.category # 0 => post.category = opts.category
  /\ MatchPrice(post.price, PriceFilter(opts.minPrice, opts.maxPrice))
  /\ opts.hasTags /\ opts.tags # <<>> => post.tags \cap QueryTags(opts.tags) # {}
  /\ opts.featured # "" => post.featured = (opts.featured = "true")

\* a faulty variant of MatchSearch: the status of the options is honoured
MatchSearchOptionStatus(post, term, opts) ==
  /\ TextMatch(post, term)
  /\ post.status = QueryStatus(opts)
  /\ opts.category # 0 => post.category = opts.category
  /\ MatchPrice(post.price, PriceFilter(opts.minPrice, opts.maxPrice))

\* does the stored post match the query search builds
MatchSearch(post, term, opts) ==
  /\ TextMatch(post, term)
  /\ post.status = "active"
  /\ opts.category # 0 => post.category = opts.category
  /\ MatchPrice(post.price, PriceFilter(opts.minPrice, opts.maxPrice))

\* postModel.paginate: the documents of one page of the matching documents,
\* sorted by creation time (ids are given in creation order; the relevance
\* score of a text search is not represented and orders nothing)
PageDocs(matched, page, limit, sortOrder) ==
  LET rank(i) == IF sortOrder = "desc"
                 THEN Cardinality({j \in matched : j > i})
                 ELSE Cardinality({j \in matched : j < i})
  IN {i \in matched : rank(i) >= (page - 1) * limit /\ rank(i) < page * limit}

GetAll(s, u, opts) ==
  /\ Free(s)
  /\ LET matched == {i \in PostIds : Exists(posts, i) /\ MatchGetAll(posts[i], opts)} IN
       req' = [req EXCEPT ![s] =
         [Respond(Begin(s, "getAll", "done", u, 0), 200) EXCEPT
            !.opts = opts, !.matched = matched, !.total = Cardinality(matched),
            !.sort = IF opts.search # "" THEN "textScore" ELSE "createdAt",
            !.docs = PageDocs(matched, opts.page, opts.limit, opts.sortOrder)]]
  /\ UNCHANGED <<posts, categories, disk, thumbs, nextPost, nextFile, nextCat, logs, accounts>>

\* AdvancedPostController.search: an empty q is a bad request
Search(s, term, opts) ==
  /\ Free(s)
  /\ LET matched == {i \in PostIds : Exists(posts, i) /\ MatchSearch(posts[i], term, opts)} IN
       req' = [req EXCEPT ![s] =
         IF term = ""
         THEN [Respond(Begin(s, "search", "done", 0, 0), 400) EXCEPT !.opts = opts]
         ELSE [Respond(Begin(s, "search", "done", 0, 0), 200) EXCEPT
                 !.opts = [opts EXCEPT !.search = term],
                 !.matched = matched, !.total = Cardinality(matched),
                 !.sort = "textScore",
                 !.docs = PageDocs(matched, opts.page, opts.limit, "desc")]]
  /\ UNCHANGED <<posts, categories, disk, thumbs, nextPost, nextFile, nextCat, logs, accounts>>

(***************************************************************************)
(* CategoryController.create, update, delete (routes behind requireOwner)  *)
(***************************************************************************)
\* the handler passes to next(error) an exception that errorHandler answers
\* with status code c (a ValidationError or a duplicate key error: 400)
Fail(r, e, c) == [r EXCEPT !.pc = "done", !.code = c, !.err = e]

\* requireOwner answers 403 for a user who is not an owner
CatBegin(s, op, pc, u, id, cdata) ==
  IF isOwner(u)
  THEN [Begin(s, op, pc, u, id) EXCEPT !.cdata = cdata]
  ELSE [Respond(Begin(s, op, "done", u, id), 403) EXCEPT !.cdata = cdata]

\* the unique indexes on name and slug: another document holds the value
Duplicate(cs, id, doc) ==
  \E c \in CatIds \ {id} :
    CatExists(cs, c) /\ (cs[c].name = doc.name \/ cs[c].slug = doc.slug)

CatStartCreate(s, u, cdata) ==
  /\ Free(s)
  /\ nextCat <= MaxCats
  /\ req' = [req EXCEPT ![s] = CatBegin(s, "cat.create", "cc_save", u, 0, cdata)]
  /\ UNCHANGED <<posts, categories, disk, thumbs, nextPost, nextFile, nextCat, logs, accounts>>

\* new Category(body): the setters trim the name; parentCategory is stored
\* as given; isActive defaults to true
NewCategory(cdata) ==
  [name |-> StripEnds(cdata.name, {" "}),
   slug |-> StripEnds([i \in DOMAIN cdata.slug |-> toLowerCase(cdata.slug[i])], {" "}),
   parentCategory |-> cdata.parentCategory,
   isActive |-> cdata.isActive # "false",
   updatedBy |-> 0]

\* the validation that save() runs before the pre('save') hooks: name and
\* slug are required, the name has at most 100 characters
CategoryValid(doc) == doc.name # <<>> /\ Len(doc.name) <= 100 /\ doc.slug # <<>>

\* category.save(): validation, then the pre('save') hook that replaces the
\* slug by the one derived from the name, then the insert
CatCreateSave(s) ==
  /\ req[s].pc = "cc_save"
  /\ LET doc == NewCategory(req[s].cdata)
         hooked == [doc EXCEPT !.slug = Slugify(doc.name)]
     IN IF ~CategoryValid(doc)
        THEN /\ req' = [req EXCEPT ![s] = Fail(@, "ValidationError", 400)]
             /\ UNCHANGED <<categories, nextCat>>
        ELSE IF Duplicate(categories, 0, hooked) \/ nextCat > MaxCats
        THEN /\ req' = [req EXCEPT ![s] = Fail(@, "MongoServerError", 400)]
             /\ UNCHANGED <<categories, nextCat>>
        ELSE /\ categories' = [categories EXCEPT ![nextCat] = hooked]
             /\ nextCat' = nextCat + 1
             /\ req' = [req EXCEPT ![s] = [@ EXCEPT !.pc = "cc_log", !.id = nextCat]]
  /\ UNCHANGED <<posts, disk, thumbs, nextPost, nextFile, logs, accounts>>

CatCreateLog(s, env) ==
  /\ req[s].pc = "cc_log"
  /\ LogAndRespond(s, LogData(req[s].user, "USER_CREATED", "category", req[s].id, "created"),
                   env, 201)
  /\ UNCHANGED <<posts, categories, disk, thumbs, nextPost, nextFile, nextCat, accounts>>

CatStartUpdate(s, u, id, cdata) ==
  /\ Free(s)
  /\ req' = [req EXCEPT ![s] = CatBegin(s, "cat.update", "cu_update", u, id, cdata)]
  /\ UNCHANGED <<posts, categories, disk, thumbs, nextPost, nextFile, nextCat, logs, accounts>>

\* the document after findOneAndUpdate's { ...body, updatedBy }: the fields
\* the body holds are set, the save hooks do not run
UpdatedCategory(cat, cdata, u) ==
  LET sent == NewCategory(cdata) IN
  [name |-> IF cdata.name # <<>> THEN sent.name ELSE cat.name,
   slug |-> IF cdata.slug # <<>> THEN sent.slug ELSE cat.slug,
   parentCategory |-> IF cdata.parentCategory # 0 THEN cdata.parentCategory
                      ELSE cat.parentCategory,
   isActive |-> IF cdata.isActive # "" THEN cdata.isActive # "false" ELSE cat.isActive,
   updatedBy |-> u]

\* findOneAndUpdate({ _id: id, isActive: true }, ..., { runValidators: true })
CatUpdate(s) ==
  /\ req[s].pc = "cu_update"
  /\ LET id == req[s].id
         doc == UpdatedCategory(categories[id], req[s].cdata, req[s].user)
     IN IF ~(CatExists(categories, id) /\ categories[id].isActive)
        THEN /\ req' = [req EXCEPT ![s] = Respond(@, 404)]
             /\ UNCHANGED categories
        ELSE IF ~CategoryValid(doc)
        THEN /\ req' = [req EXCEPT ![s] = Fail(@, "ValidationError", 400)]
             /\ UNCHANGED categories
        ELSE IF Duplicate(categories, id, doc)
        THEN /\ req' = [req EXCEPT ![s] = Fail(@, "MongoServerError", 400)]
             /\ UNCHANGED categories
        ELSE /\ categories' = [categories EXCEPT ![id] = doc]
             /\ req' = [req EXCEPT ![s] = [@ EXCEPT !.pc = "cu_log"]]
  /\ UNCHANGED <<posts, disk, thumbs, nextPost, nextFile, nextCat, logs, accounts>>

CatUpdateLog(s, env) ==
  /\ req[s].pc = "cu_log"
  /\ LogAndRespond(s, LogData(req[s].user, "USER_UPDATED", "category", req[s].id, "updated"),
                   env, 200)
  /\ UNCHANGED <<posts, categories, disk, thumbs, nextPost, nextFile, nextCat, accounts>>

CatStartDelete(s, u, id) ==
  /\ Free(s)
  /\ req' = [req EXCEPT ![s] = CatBegin(s, "cat.delete", "cd_subs", u, id, NoCatData)]
  /\ UNCHANGED <<posts, categories, disk, thumbs, nextPost, nextFile, nextCat, logs, accounts>>

\* a faulty variant of the first check: subcategories are not counted
CountSubcategoriesNone(cs, id) == 0

\* Category.countDocuments({ parentCategory: id, isActive: true })
CountSubcategories(cs, id) ==
  Cardinality({c \in CatIds : CatExists(cs, c) /\ cs[c].parentCategory = id
                               /\ cs[c].isActive})

\* Post.countDocuments({ category: id, status: { $ne: "deleted" } })
CountPosts(ps, id) ==
  Cardinality({i \in PostIds : Exists(ps, i) /\ ps[i].category = id
                                /\ ps[i].status # "deleted"})

\* ApiResponse.badRequest(res, message): the message is kept in err
BadRequest(r, message) == [r EXCEPT !.pc = "done", !.code = 400, !.err = message]

CatDeleteSubs(s) ==
  /\ req[s].pc = "cd_subs"
  /\ req' = [req EXCEPT ![s] =
       IF CountSubcategories(categories, req[s].id) > 0
       THEN BadRequest(@, "Cannot delete category with subcategories")
       ELSE [@ EXCEPT !.pc = "cd_posts"]]
  /\ UNCHANGED <<posts, categories, disk, thumbs, nextPost, nextFile, nextCat, logs, accounts>>

CatDeletePosts(s) ==
  /\ req[s].pc = "cd_posts"
  /\ req' = [req EXCEPT ![s] =
       IF CountPosts(posts, req[s].id) > 0
       THEN BadRequest(@, "Cannot delete category that is used in posts")
       ELSE [@ EXCEPT !.pc = "cd_update"]]
  /\ UNCHANGED <<posts, categories, disk, thumbs, nextPost, nextFile, nextCat, logs, accounts>>

\* findOneAndUpdate({ _id: id, isActive: true },
\*                  { isActive: false, updatedBy: req.user._id })
Deactivated(cat, u) == [cat EXCEPT !.isActive = FALSE, !.updatedBy = u]

CatDeleteUpdate(s) ==
  /\ req[s].pc = "cd_update"
  /\ LET id == req[s].id IN
       IF CatExists(categories, id) /\ categories[id].isActive
       THEN /\ categories' = [categories EXCEPT ![id] = Deactivated(@, req[s].user)]
            /\ req' = [req EXCEPT ![s] = [@ EXCEPT !.pc = "cd_log"]]
       ELSE /\ req' = [req EXCEPT ![s] = Respond(@, 404)]
            /\ UNCHANGED categories
  /\ UNCHANGED <<posts, disk, thumbs, nextPost, nextFile, nextCat, logs, accounts>>

CatDeleteLog(s, env) ==
  /\ req[s].pc = "cd_log"
  /\ LogAndRespond(s, LogData(req[s].user, "USER_UPDATED", "category", req[s].id, "deleted"),
                   env, 200)
  /\ UNCHANGED <<posts, categories, disk, thumbs, nextPost, nextFile, nextCat, accounts>>

(***************************************************************************)
(* scripts/createOwner.js and AuthController                               *)
(***************************************************************************)
\* the id the next stored user gets, 0 when the model's store is full
FreeAccount(as) ==
  IF \A a \in AccountIds : AccountExists(as, a) THEN 0
  ELSE CHOOSE a \in AccountIds :
         ~AccountExists(as, a) /\ \A b \in AccountIds : b < a => AccountExists(as, b)

UsernameTaken(as, id, username) ==
  \E a \in AccountIds \ {id} : AccountExists(as, a) /\ as[a].username = username

\* new User(data).save(): the pre('save') hook hashes the password
NewAccount(username, password, role) ==
  [username |-> username, password |-> hash(password), role |-> role, isActive |-> TRUE,
   lastLogin |-> FALSE]

\* the createOwner script: it stops when an owner exists
CreateOwner(username, password) ==
  /\ ~\E a \in AccountIds : accounts[a].role = "owner"
  /\ FreeAccount(accounts) # 0
  /\ ~UsernameTaken(accounts, 0, username)
  /\ Len(password) >= 6
  /\ accounts' = [accounts EXCEPT ![FreeAccount(accounts)] =
                    NewAccount(username, password, "owner")]
  /\ UNCHANGED <<posts, categories, disk, thumbs, nextPost, nextFile, nextCat, logs, req>>

RoleName(u) == IF u = Owner THEN "owner" ELSE "moderator"

\* authenticateToken lets a request pass as user u: a stored, active user
\* with that role holds a token
Authenticated(u) ==
  \E a \in AccountIds : accounts[a].role = RoleName(u) /\ accounts[a].isActive

\* the routes behind requireUserManagement answer 403 for a user who
\* cannot manage users, and 400 for a body the route's validator refuses
UserBegin(s, op, pc, u, id, udata, valid) ==
  IF ~canManageUsers(u)
  THEN [Respond(Begin(s, op, "done", u, id), 403) EXCEPT !.udata = udata]
  ELSE IF ~valid
  THEN [Respond(Begin(s, op, "done", u, id), 400) EXCEPT !.udata = udata]
  ELSE [Begin(s, op, pc, u, id) EXCEPT !.udata = udata]

StartCreateModerator(s, u, udata) ==
  /\ Free(s)
  /\ Authenticated(u)
  /\ FreeAccount(accounts) # 0
  /\ req' = [req EXCEPT ![s] =
       UserBegin(s, "createModerator", "m_find", u, 0, udata, validateCreateModerator(udata))]
  /\ UNCHANGED <<posts, categories, disk, thumbs, nextPost, nextFile, nextCat, logs, accounts>>

\* User.findOne({ $or: [{ username }, { email }] })
CreateModeratorFind(s) ==
  /\ req[s].pc = "m_find"
  /\ req' = [req EXCEPT ![s] =
       IF UsernameTaken(accounts, 0, req[s].udata.username)
       THEN BadRequest(@, "Username or email already exists")
       ELSE [@ EXCEPT !.pc = "m_save"]]
  /\ UNCHANGED <<posts, categories, disk, thumbs, nextPost, nextFile, nextCat, logs, accounts>>

CreateModeratorSave(s) ==
  /\ req[s].pc = "m_save"
  /\ LET a == FreeAccount(accounts) IN
       IF a = 0 \/ UsernameTaken(accounts, 0, req[s].udata.username)
       THEN /\ req' = [req EXCEPT ![s] = Fail(@, "MongoServerError", 400)]
            /\ UNCHANGED accounts
       ELSE /\ accounts' = [accounts EXCEPT ![a] =
                 NewAccount(req[s].udata.username, req[s].udata.password, "moderator")]
            /\ req' = [req EXCEPT ![s] = [Respond(@, 201) EXCEPT !.id = a]]
  /\ UNCHANGED <<posts, categories, disk, thumbs, nextPost, nextFile, nextCat, logs>>

StartUpdateModerator(s, u, id, udata) ==
  /\ Free(s)
  /\ Authenticated(u)
  /\ req' = [req EXCEPT ![s] =
       UserBegin(s, "updateModerator", "um_update", u, id, udata,
                 validateUpdateModerator(udata))]
  /\ UNCHANGED <<posts, categories, disk, thumbs, nextPost, nextFile, nextCat, logs, accounts>>

\* the document after findOneAndUpdate's update with the request body: the
\* fields the body holds are set as they are sent, the save hooks do not
\* run.  `delete updateData.role` removes the body's own role key; a $set
\* object in the body is an update operator and is applied as it is.
UpdatedAccount(acc, udata) ==
  [acc EXCEPT
     !.username = IF udata.username # "" THEN udata.username ELSE @,
     !.password = IF udata.password # <<>> THEN plain(udata.password) ELSE @,
     !.isActive = IF udata.isActive # "" THEN udata.isActive = "true" ELSE @,
     !.role = IF udata.setRole # "" THEN udata.setRole ELSE @]

\* runValidators on the update: the enum of role
AccountUpdateValid(udata) == udata.setRole \in {"", "owner", "moderator"}

\* User.findOneAndUpdate({ _id: id, role: 'moderator' }, updateData,
\*                       { new: true, runValidators: true })
UpdateModerator(s) ==
  /\ req[s].pc = "um_update"
  /\ LET id == req[s].id IN
       IF accounts[id].role # "moderator"
       THEN /\ req' = [req EXCEPT ![s] = Respond(@, 404)]
            /\ UNCHANGED accounts
       ELSE IF ~AccountUpdateValid(req[s].udata)
       THEN /\ req' = [req EXCEPT ![s] = Fail(@, "ValidationError", 400)]
            /\ UNCHANGED accounts
       ELSE IF req[s].udata.username # "" /\ UsernameTaken(accounts, id, req[s].udata.username)
       THEN /\ req' = [req EXCEPT ![s] = Fail(@, "MongoServerError", 400)]
            /\ UNCHANGED accounts
       ELSE /\ accounts' = [accounts EXCEPT ![id] = UpdatedAccount(@, req[s].udata)]
            /\ req' = [req EXCEPT ![s] = Respond(@, 200)]
  /\ UNCHANGED <<posts, categories, disk, thumbs, nextPost, nextFile, nextCat, logs>>

\* activateModerator and deactivateModerator; flag is the value they write
StartSetActive(s, u, id, flag) ==
  /\ Free(s)
  /\ Authenticated(u)
  /\ req' = [req EXCEPT ![s] =
       [UserBegin(s, IF flag = "true" THEN "activateModerator" ELSE "deactivateModerator",
                  "sa_update", u, id, NoUserData, TRUE) EXCEPT !.flag = flag]]
  /\ UNCHANGED <<posts, categories, disk, thumbs, nextPost, nextFile, nextCat, logs, accounts>>

\* User.findOneAndUpdate({ _id: id, role: 'moderator' }, { isActive })
SetActive(s) ==
  /\ req[s].pc = "sa_update"
  /\ LET id == req[s].id IN
       IF accounts[id].role # "moderator"
       THEN /\ req' = [req EXCEPT ![s] = Respond(@, 404)]
            /\ UNCHANGED accounts
       ELSE /\ accounts' = [accounts EXCEPT ![id].isActive = (req[s].flag = "true")]
            /\ req' = [req EXCEPT ![s] = Respond(@, 200)]
  /\ UNCHANGED <<posts, categories, disk, thumbs, nextPost, nextFile, nextCat, logs>>

StartLogin(s, udata) ==
  /\ Free(s)
  /\ req' = [req EXCEPT ![s] =
       IF ~validateLogin(udata)
       THEN [Respond(Begin(s, "login", "done", 0, 0), 400) EXCEPT !.udata = udata]
       ELSE [Begin(s, "login", "l_find", 0, 0) EXCEPT !.udata = udata]]
  /\ UNCHANGED <<posts, categories, disk, thumbs, nextPost, nextFile, nextCat, logs, accounts>>

\* User.findOne({ $or: [{ username }, { email: username }], isActive: true })
FindActiveUser(as, username) ==
  IF \E a \in AccountIds : AccountExists(as, a) /\ as[a].username = username /\ as[a].isActive
  THEN CHOOSE a \in AccountIds :
         AccountExists(as, a) /\ as[a].username = username /\ as[a].isActive
  ELSE 0

LoginFind(s) ==
  /\ req[s].pc = "l_find"
  /\ LET a == FindActiveUser(accounts, req[s].udata.username) IN
       req' = [req EXCEPT ![s] =
         IF a = 0 THEN Respond(@, 401)
         ELSE [@ EXCEPT !.pc = "l_compare", !.id = a, !.account = accounts[a]]]
  /\ UNCHANGED <<posts, categories, disk, thumbs, nextPost, nextFile, nextCat, logs, accounts>>

\* await user.comparePassword(password)
LoginCompare(s) ==
  /\ req[s].pc = "l_compare"
  /\ req' = [req EXCEPT ![s] =
       IF comparePassword(req[s].account.password, req[s].udata.password)
       THEN [@ EXCEPT !.pc = "l_save"]
       ELSE Respond(@, 401)]
  /\ UNCHANGED <<posts, categories, disk, thumbs, nextPost, nextFile, nextCat, logs, accounts>>

\* user.lastLogin = new Date(); await user.save(): only lastLogin is
\* modified, so the password is neither rewritten nor hashed again; the
\* response carries generateToken(user._id)
LoginSave(s) ==
  /\ req[s].pc = "l_save"
  /\ accounts' = [accounts EXCEPT ![req[s].id].lastLogin = TRUE]
  /\ req' = [req EXCEPT ![s] = [Respond(@, 200) EXCEPT !.token = req[s].id]]
  /\ UNCHANGED <<posts, categories, disk, thumbs, nextPost, nextFile, nextCat, logs>>

(***************************************************************************)
(* authenticateToken and requireModerator in front of the post routes      *)
(***************************************************************************)
\* a faulty variant of authenticateToken: isActive is not looked at
authenticateTokenAnyUser(as, a) == IF ~AccountExists(as, a) THEN 401 ELSE 200

\* authenticateToken for a valid, unexpired token that carries user id a:
\* User.findById, then 401 when there is no such user or the user is not
\* active, else next() (given as 200)
authenticateToken(as, a) ==
  IF ~AccountExists(as, a) THEN 401
  ELSE IF ~as[a].isActive THEN 401
  ELSE 200

\* req.user of a request that authenticateToken let pass
RequestUser(as, a) == IF as[a].role = "owner" THEN Owner ELSE Moderator

\* POST /posts and DELETE /posts/:id presented with the token that a login
\* of user a was answered with.  The body of a create is one that
\* validatePost admits, without an image.
StartWithToken(s, a, op, id, data) ==
  /\ Free(s)
  /\ accounts[a].lastLogin
  /\ op \in {"create", "delete"}
  /\ op = "create" => (nextPost <= MaxPosts /\ validatePost(data) /\ id = 0)
  /\ op = "delete" => (id \in PostIds /\ data = NoData)
  /\ req' = [req EXCEPT ![s] =
       [Begin(s, op, "auth", 0, id) EXCEPT !.token = a, !.data = data]]
  /\ UNCHANGED <<posts, categories, disk, thumbs, nextPost, nextFile, nextCat, logs, accounts>>

\* the middleware chain of the route: authenticateToken, requireModerator
\* (owner and moderator both pass), then the handler
AuthenticateToken(s) ==
  /\ req[s].pc = "auth"
  /\ req' = [req EXCEPT ![s] =
       IF authenticateToken(accounts, req[s].token) # 200
       THEN Respond(@, 401)
       ELSE [@ EXCEPT !.user = RequestUser(accounts, req[s].token),
                      !.pc = IF req[s].op = "create" THEN "c_db" ELSE "d_find"]]
  /\ UNCHANGED <<posts, categories, disk, thumbs, nextPost, nextFile, nextCat, logs, accounts>>

(***************************************************************************)
(* Direct calls of the file store                                          *)
(***************************************************************************)
FsSave(s, file, env) ==
  /\ Free(s)
  /\ nextFile <= MaxFiles
  /\ LET r == save(file, env, disk, thumbs, nextFile) IN
       /\ disk' = r.disk
       /\ thumbs' = r.thumbs
       /\ nextFile' = r.next
       /\ req' = [req EXCEPT ![s] =
            IF r.ok
            THEN [Respond(Begin(s, "fs.save", "done", 0, 0), 200) EXCEPT
                    !.image = file, !.fileName = r.fileName, !.flag = env]
            ELSE [Throw(Begin(s, "fs.save", "done", 0, 0), "Error") EXCEPT
                    !.image = file, !.flag = env]]
  /\ UNCHANGED <<posts, categories, nextPost, nextCat, logs, accounts>>

FsDelete(s, fileName, env) ==
  /\ Free(s)
  /\ LET r == delete(fileName, env, disk, thumbs) IN
       /\ disk' = r.disk
       /\ thumbs' = r.thumbs
       /\ req' = [req EXCEPT ![s] =
            IF r.ok
            THEN [Respond(Begin(s, "fs.delete", "done", 0, 0), 200) EXCEPT
                    !.fileName = fileName, !.flag = env, !.returned = r.returned]
            ELSE [Throw(Begin(s, "fs.delete", "done", 0, 0), "Error") EXCEPT
                    !.fileName = fileName, !.flag = env]]
  /\ UNCHANGED <<posts, categories, nextPost, nextFile, nextCat, logs, accounts>>

FileUploads == {PngFile, PdfFile, BigFile, EdgeFile, NamelessFile}

NextFile ==
  \/ \E file \in FileUploads, env \in SaveEnvs : FsSave(1, file, env)
  \/ \E f \in 0..MaxFiles, env \in DeleteEnvs : FsDelete(1, f, env)

SpecFile == Init /\ [][NextFile]_vars

(***************************************************************************)
(* Spec: the post lifecycle with images, one request at a time             *)
(***************************************************************************)
BasePost == [NoData EXCEPT !.title = "bed", !.body = "a good bed", !.price = 5,
                           !.category = 1]

CreateBodies == {BasePost, [BasePost EXCEPT !.status = "archived"]}

EditBodies == {NoData, [NoData EXCEPT !.price = 7]}

Uploads == {NoFile, PngFile, PdfFile}

Next ==
  \/ \E d \in CreateBodies, f \in Uploads : StartCreate(1, Moderator, d, f)
  \/ \E env \in SaveEnvs : CreateSave(1, env)
  \/ CreateDb(1)
  \/ CreateLog(1, "fail")
  \/ \E i \in PostIds, d \in EditBodies, f \in Uploads : StartEdit(1, Moderator, i, d, f)
  \/ EditFind(1)
  \/ \E env \in SaveEnvs : EditSave(1, env)
  \/ \E env \in DeleteEnvs : EditDeleteOld(1, env)
  \/ EditUpdate(1)
  \/ EditLog(1, "fail")
  \/ \E u \in Users, i \in PostIds, h \in {"", "true"} : StartDelete(1, u, i, h)
  \/ DeleteFind(1)
  \/ DeleteUpdate(1)
  \/ HardDeleteFind(1)
  \/ \E env \in DeleteEnvs : HardDeleteFile(1, env)
  \/ HardDeleteRemove(1)
  \/ DeleteLog(1, "fail")
  \/ \E i \in PostIds : StartRestore(1, Moderator, i)
  \/ RestoreFind(1)
  \/ RestoreUpdate(1)
  \/ RestoreLog(1, "fail")

Spec == Init /\ [][Next]_vars

(***************************************************************************)
(* Claims checked under Spec                                               *)
(***************************************************************************)
Done(s, op) == req[s].op = op /\ req[s].pc = "done"

\* C1: when create has saved the image through the file store and a later
\* step fails (the database write included), the saved file and its
\* thumbnail are deleted before create reports the error: after a failed
\* create no file written by that call remains on disk.
C1_FailedCreateLeavesNoFile ==
  \A s \in DOMAIN req :
    Done(s, "create") /\ req[s].code = 500 /\ req[s].fileName # 0
      => req[s].fileName \notin disk /\ req[s].fileName \notin thumbs

\* C5 as stated: after edit returns successfully with a new image for a post
\* that had an image, the previous image file is no longer on disk, the new
\* image file is on disk and the stored post's image field names it.
C5_PreviousImageGone ==
  \A s \in DOMAIN req :
    Done(s, "edit") /\ req[s].code = 200 /\ req[s].image # NoFile
    /\ req[s].found.image # 0
      => /\ req[s].found.image \notin disk
         /\ req[s].fileName \in disk
         /\ posts[req[s].id].image = req[s].fileName

\* C5 amended: after such an edit the new image file is on disk and the
\* stored post's image field names it; the previous image file is no longer
\* on disk unless its deletion failed, which edit only reports as a warning.
C5_PreviousImageGoneUnlessWarned ==
  \A s \in DOMAIN req :
    Done(s, "edit") /\ req[s].code = 200 /\ req[s].image # NoFile
    /\ req[s].found.image # 0
      => /\ ~req[s].warn => req[s].found.image \notin disk
         /\ req[s].fileName \in disk
         /\ posts[req[s].id].image = req[s].fileName

C5_Witness ==
  \E s \in DOMAIN req :
    /\ Done(s, "edit") /\ req[s].code = 200 /\ req[s].image # NoFile
    /\ req[s].found.image # 0
    /\ req[s].found.image \in req[s].pre.disk
    /\ ~req[s].warn
    /\ req[s].found.image \notin disk

(***************************************************************************)
(* SpecStatus: the status of a post under create, edit, delete, restore    *)
(* and toggleFeatured, and the status filter of getAll                     *)
(***************************************************************************)
StatusEdits == {[NoData EXCEPT !.status = st] : st \in {"active", "inactive", "deleted"}}

StatusOpts ==
  {[NoOpts EXCEPT !.status = st, !.limit = l] :
     st \in {"", "active", "inactive", "deleted"}, l \in {1, 10}}

\* the q parameter of a search: a word of the stored post, a word of no
\* post, and no term
SearchTerms == {"bed", "sofa", ""}

NextStatus ==
  \/ StartCreate(1, Moderator, BasePost, NoFile)
  \/ CreateDb(1)
  \/ CreateLog(1, "fail")
  \/ \E u \in Users, i \in PostIds, d \in StatusEdits : StartEdit(1, u, i, d, NoFile)
  \/ EditFind(1)
  \/ EditUpdate(1)
  \/ EditLog(1, "fail")
  \/ \E u \in Users, i \in PostIds, h \in {"", "true"} : StartDelete(1, u, i, h)
  \/ DeleteFind(1)
  \/ DeleteUpdate(1)
  \/ HardDeleteFind(1)
  \/ HardDeleteRemove(1)
  \/ DeleteLog(1, "fail")
  \/ \E u \in Users, i \in PostIds : StartRestore(1, u, i)
  \/ RestoreFind(1)
  \/ RestoreUpdate(1)
  \/ RestoreLog(1, "fail")
  \/ \E u \in Users, i \in PostIds : StartToggleFeatured(1, u, i)
  \/ ToggleFind(1)
  \/ ToggleUpdate(1)
  \/ ToggleLog(1, "fail")
  \/ \E o \in StatusOpts : GetAll(1, 0, o)
  \/ \E t \in SearchTerms, o \in StatusOpts : Search(1, t, o)

SpecStatus == Init /\ [][NextStatus]_vars

\* C2: every post getAll returns has the status given in the options,
\* active when none is given; so a post whose status is deleted is never in
\* the result of getAll called without a status option.
C2_GetAllStatus ==
  \A s \in DOMAIN req :
    Done(s, "getAll") =>
      \A i \in req[s].docs :
        /\ req[s].opts.status # "" => posts[i].status = req[s].opts.status
        /\ req[s].opts.status = "" => posts[i].status = "active"
        /\ req[s].opts.status = "" => posts[i].status # "deleted"

C2_Witness ==
  \E s \in DOMAIN req :
    /\ Done(s, "getAll") /\ req[s].opts.status = ""
    /\ \E i \in PostIds : posts[i].status = "deleted" /\ i \notin req[s].docs

\* C3: restore succeeds only on a post whose status is deleted and then sets
\* the status to active; on an active, an inactive or a missing post it is
\* rejected with an error and the stored posts are unchanged.
C3_RestoreOnlyDeleted ==
  \A s \in DOMAIN req :
    Done(s, "restore") =>
      LET before == req[s].pre.posts[req[s].id] IN
        /\ req[s].code = 200 =>
             /\ before.status = "deleted"
             /\ posts[req[s].id] = [before EXCEPT !.status = "active",
                                                  !.updatedBy = req[s].user]
        /\ before.status = "deleted" => req[s].code = 200
        /\ before.status \in {"active", "inactive", "none"} =>
             /\ req[s].code = 500 /\ req[s].err = "Error"
             /\ posts = req[s].pre.posts

C3_Witness ==
  \E s \in DOMAIN req :
    /\ Done(s, "restore") /\ req[s].code = 500
    /\ req[s].pre.posts[req[s].id].status = "inactive"
    /\ posts[req[s].id].status = "inactive"

(***************************************************************************)
(* SpecViews: the view counter under getOne                                *)
(***************************************************************************)
\* bodies of an edit: a price, and a views field, which validatePostUpdate
\* does not look at
ViewEdits == {[NoData EXCEPT !.price = 7], [NoData EXCEPT !.views = 0]}

NextViews ==
  \/ StartCreate(1, Moderator, BasePost, NoFile)
  \/ CreateDb(1)
  \/ CreateLog(1, "fail")
  \/ \E u \in {0, Moderator}, i \in PostIds, t \in {"", "true"} : StartGetOne(1, u, i, t)
  \/ GetOneFind(1)
  \/ GetOneSave(1)
  \/ GetOneLog(1, "fail")
  \/ \E i \in PostIds : StartDelete(1, Moderator, i, "")
  \/ DeleteFind(1)
  \/ DeleteUpdate(1)
  \/ DeleteLog(1, "fail")
  \/ \E i \in PostIds : StartRestore(1, Moderator, i)
  \/ RestoreFind(1)
  \/ RestoreUpdate(1)
  \/ RestoreLog(1, "fail")
  \/ \E i \in PostIds, d \in ViewEdits : StartEdit(1, Moderator, i, d, NoFile)
  \/ EditFind(1)
  \/ EditUpdate(1)
  \/ EditLog(1, "fail")
  \/ \E i \in PostIds : StartToggleFeatured(1, Moderator, i)
  \/ ToggleFind(1)
  \/ ToggleUpdate(1)
  \/ ToggleLog(1, "fail")

SpecViews == Init /\ [][NextViews]_vars

\* C8: with one request at a time, a getOne with trackView on a stored post
\* that is not deleted succeeds and raises its views by exactly one (so n
\* such calls in sequence raise it by n); without trackView no post changes;
\* on a missing or deleted post getOne answers not found and no views
\* counter changes.
C8_ViewsCountCalls ==
  \A s \in DOMAIN req :
    Done(s, "getOne") =>
      LET before == req[s].pre.posts[req[s].id] IN
        /\ before.status \in {"active", "inactive"} /\ req[s].flag = "true" =>
             /\ req[s].code = 200
             /\ posts = [req[s].pre.posts EXCEPT ![req[s].id].views = before.views + 1]
        /\ before.status \in {"active", "inactive"} /\ req[s].flag # "true" =>
             /\ req[s].code = 200
             /\ posts = req[s].pre.posts
        /\ before.status \in {"deleted", "none"} =>
             /\ req[s].code = 404
             /\ posts = req[s].pre.posts

\* the second of two tracked reads of a post has answered
C8_Witness ==
  \E s \in DOMAIN req :
    /\ Done(s, "getOne") /\ req[s].flag = "true" /\ req[s].code = 200
    /\ req[s].pre.posts[req[s].id].views = 1
    /\ posts[req[s].id].views = 2

(***************************************************************************)
(* SpecPrice: the price range of getAll and search                         *)
(***************************************************************************)
PriceBodies == {[BasePost EXCEPT !.price = p, !.category = c] : p \in {0, 5, 10}, c \in {1, 2}}

PriceBounds == {-5, 0, 5, 10}

PriceOpts ==
  {[NoOpts EXCEPT !.minPrice = lo, !.maxPrice = hi, !.category = c] :
     lo \in PriceBounds, hi \in PriceBounds, c \in {0, 1}}

NextPrice ==
  \/ \E d \in PriceBodies : StartCreate(1, Moderator, d, NoFile)
  \/ CreateDb(1)
  \/ CreateLog(1, "fail")
  \/ \E i \in PostIds : StartDelete(1, Owner, i, "true")
  \/ HardDeleteFind(1)
  \/ HardDeleteRemove(1)
  \/ DeleteLog(1, "fail")
  \/ \E o \in PriceOpts : GetAll(1, 0, o)
  \/ \E t \in {"bed", "sofa"}, o \in PriceOpts : Search(1, t, o)

SpecPrice == Init /\ [][NextPrice]_vars

\* the stored posts that satisfy every filter of the query but the price range
OtherFilters(r) ==
  {i \in PostIds :
     /\ Exists(posts, i)
     /\ IF r.op = "getAll"
        THEN MatchGetAll(posts[i], [r.opts EXCEPT !.minPrice = 0, !.maxPrice = 0])
        ELSE MatchSearch(posts[i], r.opts.search,
                         [r.opts EXCEPT !.minPrice = 0, !.maxPrice = 0])}

\* C4 as stated: for all numeric minPrice and maxPrice, a post that satisfies
\* the other filters is in the result of getAll or search if and only if
\* (minPrice = 0 or price >= minPrice) and (maxPrice = 0 or price <= maxPrice).
C4_PriceRangeZeroUnbounded ==
  \A s \in DOMAIN req :
    (Done(s, "getAll") \/ Done(s, "search")) /\ req[s].code = 200 =>
      \A i \in OtherFilters(req[s]) :
        i \in req[s].docs <=>
          /\ req[s].opts.minPrice = 0 \/ posts[i].price >= req[s].opts.minPrice
          /\ req[s].opts.maxPrice = 0 \/ posts[i].price <= req[s].opts.maxPrice

\* C4 amended: a bound that is zero or negative is not applied; the post is
\* in the result if and only if (minPrice <= 0 or price >= minPrice) and
\* (maxPrice <= 0 or price <= maxPrice).
C4_PriceRangeNonPositiveUnbounded ==
  \A s \in DOMAIN req :
    (Done(s, "getAll") \/ Done(s, "search")) /\ req[s].code = 200 =>
      \A i \in OtherFilters(req[s]) :
        i \in req[s].docs <=>
          /\ req[s].opts.minPrice <= 0 \/ posts[i].price >= req[s].opts.minPrice
          /\ req[s].opts.maxPrice <= 0 \/ posts[i].price <= req[s].opts.maxPrice

\* a post whose price equals both bounds is in the result of a search
C4_Witness ==
  \E s \in DOMAIN req :
    /\ Done(s, "search") /\ req[s].code = 200
    /\ req[s].opts.minPrice = 5 /\ req[s].opts.maxPrice = 5
    /\ \E i \in req[s].docs : posts[i].price = 5


(***************************************************************************)
(* Claims checked under SpecFile                                           *)
(***************************************************************************)
\* C9: for every file accepted by EnhancedFileService.save, a call of delete
\* with the file name save returned, once it has returned, leaves neither
\* the original file nor its generated thumbnail on disk (a delete whose
\* unlink fails does not return: it raises).
C9_SaveDeleteRoundTrip ==
  \A s \in DOMAIN req :
    (/\ Done(s, "fs.delete")
     /\ req[s].err = ""
     /\ req[s].fileName \in req[s].pre.disk)
    => /\ req[s].fileName \notin disk
       /\ req[s].fileName \notin thumbs

\* a saved image with its thumbnail has been deleted
C9_Witness ==
  \E s \in DOMAIN req :
    /\ Done(s, "fs.delete")
    /\ req[s].err = ""
    /\ req[s].fileName \in req[s].pre.disk
    /\ req[s].fileName \in req[s].pre.thumbs

(***************************************************************************)
(* SpecCat: categories and the posts that reference them                   *)
(***************************************************************************)
BedsName == <<"B", "e", "d", "s">>
SoftName == <<" ", "S", "o", "f", "t", " ", "_", "b", "e", "d", "2", "!">>

BedsBody == [NoCatData EXCEPT !.name = BedsName, !.slug = <<"b", "e", "d", "s">>]

CatBodies ==
  {BedsBody,
   [NoCatData EXCEPT !.name = SoftName, !.slug = <<"s">>, !.parentCategory = 1],
   [NoCatData EXCEPT !.name = SoftName]}

CatEdits == {[NoCatData EXCEPT !.parentCategory = 2], [NoCatData EXCEPT !.name = SoftName]}

CatPosts == {BasePost, [BasePost EXCEPT !.category = 2]}

CatPostEdits == {[NoData EXCEPT !.category = 2]}

NextCat ==
  \/ \E u \in Users, d \in CatBodies : CatStartCreate(1, u, d)
  \/ CatCreateSave(1)
  \/ CatCreateLog(1, "fail")
  \/ \E c \in CatIds, d \in CatEdits : CatStartUpdate(1, Owner, c, d)
  \/ CatUpdate(1)
  \/ CatUpdateLog(1, "fail")
  \/ \E c \in CatIds : CatStartDelete(1, Owner, c)
  \/ CatDeleteSubs(1)
  \/ CatDeletePosts(1)
  \/ CatDeleteUpdate(1)
  \/ CatDeleteLog(1, "fail")
  \/ \E d \in CatPosts : StartCreate(1, Moderator, d, NoFile)
  \/ CreateDb(1)
  \/ CreateLog(1, "fail")
  \/ \E i \in PostIds, d \in CatPostEdits : StartEdit(1, Moderator, i, d, NoFile)
  \/ EditFind(1)
  \/ EditUpdate(1)
  \/ EditLog(1, "fail")
  \/ \E i \in PostIds : StartDelete(1, Moderator, i, "")
  \/ DeleteFind(1)
  \/ DeleteUpdate(1)
  \/ DeleteLog(1, "fail")
  \/ \E i \in PostIds : StartRestore(1, Moderator, i)
  \/ RestoreFind(1)
  \/ RestoreUpdate(1)
  \/ RestoreLog(1, "fail")

SpecCat == Init /\ [][NextCat]_vars

\* the stores as the category delete request found them
HadSubcategory(r) ==
  \E c \in CatIds :
    /\ CatExists(r.pre.categories, c)
    /\ r.pre.categories[c].isActive
    /\ r.pre.categories[c].parentCategory = r.id

HadPost(r) ==
  \E i \in PostIds :
    /\ Exists(r.pre.posts, i)
    /\ r.pre.posts[i].status # "deleted"
    /\ r.pre.posts[i].category = r.id

\* C6: category delete(id) is rejected when an active category has
\* parentCategory = id; otherwise it is rejected when a post whose status is
\* not deleted references id; only when both checks pass is the category
\* marked inactive and stamped with the updating user.  A rejected delete
\* changes nothing.
C6_CategoryDeleteOrder ==
  \A s \in DOMAIN req :
    (Done(s, "cat.delete") /\ isOwner(req[s].user)) =>
      LET r == req[s]
          was == r.pre.categories
      IN /\ HadSubcategory(r) =>
              /\ r.code = 400
              /\ r.err = "Cannot delete category with subcategories"
              /\ categories = was
         /\ (~HadSubcategory(r) /\ HadPost(r)) =>
              /\ r.code = 400
              /\ r.err = "Cannot delete category that is used in posts"
              /\ categories = was
         /\ (~HadSubcategory(r) /\ ~HadPost(r) /\ CatExists(was, r.id) /\ was[r.id].isActive) =>
              /\ r.code = 200
              /\ categories = [was EXCEPT ![r.id] =
                                 [@ EXCEPT !.isActive = FALSE, !.updatedBy = r.user]]
         /\ categories # was => (~HadSubcategory(r) /\ ~HadPost(r))
         /\ posts = r.pre.posts

\* a parent whose only subcategory was deleted before has been deleted
C6_Witness ==
  \E s \in DOMAIN req :
    /\ Done(s, "cat.delete")
    /\ req[s].code = 200
    /\ req[s].pre.categories[req[s].id].isActive
    /\ ~categories[req[s].id].isActive
    /\ categories[req[s].id].updatedBy = req[s].user
    /\ \E c \in CatIds :
         /\ CatExists(categories, c)
         /\ categories[c].parentCategory = req[s].id
         /\ ~categories[c].isActive

\* C7: in every reachable state, the category field of every stored post
\* whose status is not deleted references an existing category with
\* isActive = true.
C7_PostCategoryActive ==
  \A i \in PostIds :
    (Exists(posts, i) /\ posts[i].status # "deleted") =>
      /\ posts[i].category \in CatIds
      /\ CatExists(categories, posts[i].category)
      /\ categories[posts[i].category].isActive

(***************************************************************************)
(* SpecLog: logActivity, called directly and by the handlers               *)
(***************************************************************************)
\* a direct call of ActivityLog.logActivity(data)
LogActivity(s, data, env) ==
  /\ Free(s)
  /\ env = "ok" => Len(logs) < MaxLogs
  /\ LET r == logActivity(data, env, logs)
         b == [Begin(s, "logActivity", "log", 0, 0) EXCEPT !.ldata = data]
     IN /\ logs' = r.logs
        /\ req' = [req EXCEPT ![s] =
             IF r.threw THEN Throw(b, "Error")
             ELSE [Respond(b, 200) EXCEPT !.logged = r.returned]]
  /\ UNCHANGED <<posts, categories, disk, thumbs, nextPost, nextFile, nextCat, accounts>>

LogInputs ==
  {LogData(Owner, "POST_VIEWED", "post", 1, "view"),
   LogData(0, "POST_VIEWED", "post", 1, "view"),
   LogData(Owner, "USER_CREATED", "category", 1, "created")}

NextLog ==
  \/ \E d \in LogInputs, env \in LogEnvs : LogActivity(1, d, env)
  \/ CatStartCreate(1, Owner, BedsBody)
  \/ CatCreateSave(1)
  \/ \E env \in LogEnvs : CatCreateLog(1, env)
  \/ StartCreate(1, Moderator, BasePost, NoFile)
  \/ CreateDb(1)
  \/ \E env \in LogEnvs : CreateLog(1, env)
  \/ \E i \in PostIds : StartGetOne(1, Moderator, i, "true")
  \/ GetOneFind(1)
  \/ GetOneSave(1)
  \/ \E env \in LogEnvs : GetOneLog(1, env)
  \/ \E i \in PostIds : StartDelete(1, Moderator, i, "")
  \/ DeleteFind(1)
  \/ DeleteUpdate(1)
  \/ \E env \in LogEnvs : DeleteLog(1, env)

SpecLog == Init /\ [][NextLog]_vars

\* the positions of the handlers at their logActivity call, and the status
\* code of the success response that follows it
LogPcs == {"c_log", "g_log", "e_log", "d_log", "r_log", "t_log", "cc_log", "cu_log", "cd_log"}

SuccessCode(pc) == IF pc \in {"c_log", "cc_log"} THEN 201 ELSE 200

\* C10: ActivityLog.logActivity never raises to its caller: when the record
\* cannot be persisted (user is null, resource is outside the enumerated
\* kinds, the insert fails) it returns null and stores no record, and the
\* triggering operation's state changes and success response are the same
\* as if logging had succeeded.
C10_LogNeverBreaks ==
  [][\A s \in DOMAIN req :
       /\ (req'[s] # req[s] /\ req'[s].op = "logActivity") =>
            /\ req'[s].err = ""
            /\ req'[s].logged \in {"log", "null"}
            /\ ~LogValid(req'[s].ldata) => req'[s].logged = "null"
            /\ req'[s].logged = "null" => logs' = logs
            /\ req'[s].logged = "log" => logs' = Append(logs, req'[s].ldata)
       /\ (req'[s] # req[s] /\ req[s].pc \in LogPcs) =>
            /\ [req'[s] EXCEPT !.logged = "", !.ldata = NoLogData]
                 = Respond(req[s], SuccessCode(req[s].pc))
            /\ req'[s].logged \in {"log", "null"}
            /\ ~LogValid(req'[s].ldata) => req'[s].logged = "null"
            /\ req'[s].logged = "null" => logs' = logs
            /\ req'[s].logged = "log" => logs' = Append(logs, req'[s].ldata)
            /\ <<posts, categories, disk, thumbs>>' = <<posts, categories, disk, thumbs>>
    ]_vars

\* a category was created and answered 201 although its activity record,
\* whose resource is not an enumerated kind, was not stored
C10_Witness ==
  \E s \in DOMAIN req :
    /\ Done(s, "cat.create")
    /\ req[s].code = 201
    /\ req[s].logged = "null"
    /\ ~LogValid(req[s].ldata)
    /\ logs = req[s].pre.logs
    /\ CatExists(categories, req[s].id)


(***************************************************************************)
(* Claims on the delete route, checked under Spec                          *)
(***************************************************************************)
HardDeletePcs == {"h_find", "h_delfile", "h_remove"}

\* C11: hard deletion is owner-only: a DELETE /posts/:id request made by a
\* user whose role is not owner never removes a post record or its image
\* file from storage, whatever the value of the hard flag; only a request
\* by the owner with hard=true invokes hardDelete.
C11_HardDeleteOwnerOnly ==
  \A s \in DOMAIN req :
    req[s].op = "delete" =>
      /\ req[s].pc \in HardDeletePcs => (isOwner(req[s].user) /\ req[s].flag = "true")
      /\ ~isOwner(req[s].user) =>
           /\ \A i \in PostIds : Exists(req[s].pre.posts, i) => Exists(posts, i)
           /\ disk = req[s].pre.disk
           /\ thumbs = req[s].pre.thumbs

\* a moderator's delete with hard=true has answered 200: the post, which has
\* an image, is kept with status deleted and its file is on disk
C11_Witness ==
  \E s \in DOMAIN req :
    /\ Done(s, "delete")
    /\ req[s].user = Moderator
    /\ req[s].flag = "true"
    /\ req[s].code = 200
    /\ posts[req[s].id].status = "deleted"
    /\ posts[req[s].id].image \in disk


(***************************************************************************)
(* Claims on the category slug, checked under SpecCat                      *)
(***************************************************************************)
\* C12: after every successful category create and every successful
\* category update, the stored slug equals the slug derived from the stored
\* name; in particular an update that changes name also changes slug.
C12_SlugDerivedFromName ==
  \A s \in DOMAIN req :
    (/\ Done(s, "cat.create") \/ Done(s, "cat.update")
     /\ req[s].code \in {200, 201})
    => categories[req[s].id].slug = Slugify(categories[req[s].id].name)


(***************************************************************************)
(* Claims on the responses of the post routes, checked under SpecStatus    *)
(***************************************************************************)
\* the post a request targets, as the request found it
Missing(r) == ~Exists(r.pre.posts, r.id)
WasDeleted(r) == r.pre.posts[r.id].status = "deleted"

\* C13: every post request that targets a missing or already-deleted post
\* (getOne, edit, delete, toggleFeatured) or a missing post (restore) ends
\* in a not-found response (status 404), never in an internal-error
\* response (status 500).
C13_NotFoundIs404 ==
  \A s \in DOMAIN req :
    (/\ req[s].pc = "done"
     /\ req[s].id \in PostIds
     /\ \/ /\ req[s].op \in {"getOne", "edit", "delete", "toggleFeatured"}
           /\ Missing(req[s]) \/ WasDeleted(req[s])
        \/ /\ req[s].op = "restore"
           /\ Missing(req[s]))
    => req[s].code = 404


\* the request that takes a step
Acting(s) == req'[s] # req[s]

\* the status changes of the claim: delete, restore, hardDelete
ClaimedChange(r, a, b) ==
  \/ r.op = "delete" /\ a = "active" /\ b = "deleted"
  \/ r.op = "restore" /\ a = "deleted" /\ b = "active"
  \/ r.op = "delete" /\ a = "deleted" /\ b = "none"

\* the status changes of the code: delete takes any post that is not
\* deleted, hardDelete (owner, hard=true) takes a post in any status, and
\* edit sets the status its body carries, active or inactive, on a post
\* that is not deleted
CodeChange(r, a, b) ==
  \/ r.op = "delete" /\ a \in {"active", "inactive"} /\ b = "deleted"
  \/ r.op = "restore" /\ a = "deleted" /\ b = "active"
  \/ r.op = "delete" /\ isOwner(r.user) /\ r.flag = "true" /\ b = "none"
  \/ r.op = "edit" /\ a \in {"active", "inactive"} /\ b \in {"active", "inactive"}
       /\ b = r.data.status

C16_DeleteReturnsExistence ==
  \A s \in DOMAIN req :
    (Done(s, "fs.delete") /\ req[s].fileName # 0) =>
      /\ req[s].err = "" => (req[s].returned <=> req[s].fileName \in req[s].pre.disk)
      /\ (req[s].fileName \notin req[s].pre.thumbs /\ req[s].flag # "failorig")
           => req[s].err = ""


\* C17: search(term, options) returns only posts whose status is active,
\* for every options value (a status given by the caller has no effect: the
\* result is every active post that matches the term), and always orders
\* results by text relevance score.
C17_SearchActiveOnly ==
  \A s \in DOMAIN req :
    (Done(s, "search") /\ req[s].code = 200) =>
      /\ \A i \in req[s].matched : req[s].pre.posts[i].status = "active"
      /\ req[s].matched =
           {i \in PostIds : /\ req[s].pre.posts[i].status = "active"
                            /\ TextMatch(req[s].pre.posts[i], req[s].opts.search)}
      /\ req[s].docs \subseteq req[s].matched
      /\ req[s].sort = "textScore"

\* a search that asked for status deleted has returned an active post
C17_Witness ==
  \E s \in DOMAIN req :
    /\ Done(s, "search")
    /\ req[s].code = 200
    /\ req[s].opts.status = "deleted"
    /\ req[s].docs # {}
    /\ \A i \in req[s].docs : posts[i].status = "active"


(***************************************************************************)
(* SpecAuth: the users, their passwords and login                          *)
(***************************************************************************)
AdminPassword == <<"A", "d", "m", "i", "n", "1">>
NewPassword == <<"S", "e", "c", "r", "e", "t", "2">>
WeakPassword == <<"w", "e", "a", "k">>

ModBodies ==
  {[NoUserData EXCEPT !.username = "mod", !.password = pw] : pw \in {AdminPassword, WeakPassword}}

ModEdits ==
  {[NoUserData EXCEPT !.password = NewPassword],
   [NoUserData EXCEPT !.password = WeakPassword],
   [NoUserData EXCEPT !.username = "admin"],
   [NoUserData EXCEPT !.role = "owner"],
   [NoUserData EXCEPT !.setRole = "owner"]}

Logins ==
  {[NoUserData EXCEPT !.username = n, !.password = pw] :
     n \in {"admin", "mod"}, pw \in {AdminPassword, NewPassword}}

NextAuth ==
  \/ CreateOwner("admin", AdminPassword)
  \/ \E u \in Users, d \in ModBodies : StartCreateModerator(1, u, d)
  \/ CreateModeratorFind(1)
  \/ CreateModeratorSave(1)
  \/ \E a \in AccountIds, d \in ModEdits : StartUpdateModerator(1, Owner, a, d)
  \/ UpdateModerator(1)
  \/ \E a \in AccountIds, f \in {"true", "false"} : StartSetActive(1, Owner, a, f)
  \/ SetActive(1)
  \/ \E d \in Logins : StartLogin(1, d)
  \/ LoginFind(1)
  \/ LoginCompare(1)
  \/ LoginSave(1)

SpecAuth == Init /\ [][NextAuth]_vars

\* C18: in every reachable state the password stored for every user is a
\* hash and never the plaintext submitted by the client; consequently a
\* login of an active user with the password that was last set for that
\* user (by createModerator or updateModerator) succeeds.
C18_StoredPasswordsHashed ==
  /\ \A a \in AccountIds : AccountExists(accounts, a) => accounts[a].password.hashed
  /\ \A s \in DOMAIN req :
       (/\ Done(s, "login")
        /\ \E a \in AccountIds :
             /\ AccountExists(req[s].pre.accounts, a)
             /\ req[s].pre.accounts[a].isActive
             /\ req[s].pre.accounts[a].username = req[s].udata.username
             /\ req[s].pre.accounts[a].password.text = req[s].udata.password)
       => req[s].code = 200


(***************************************************************************)
(* Claims on the view counter, checked under SpecViews                     *)
(***************************************************************************)
\* C19: the views counter of a post is monotonic: over any sequence of
\* getOne, edit, delete, restore and toggleFeatured requests on a stored
\* post, its views value never decreases.
C19_ViewsMonotonic ==
  [][\A i \in PostIds :
       (Exists(posts, i) /\ Exists(posts', i)) => posts'[i].views >= posts[i].views
    ]_vars


(***************************************************************************)
(* SpecRace: two requests at a time on one post                            *)
(***************************************************************************)
NextRace ==
  \/ StartCreate(1, Moderator, BasePost, NoFile)
  \/ CreateDb(1)
  \/ CreateLog(1, "fail")
  \/ \E s \in DOMAIN req : StartGetOne(s, Moderator, 1, "true")
  \/ \E s \in DOMAIN req : GetOneFind(s)
  \/ \E s \in DOMAIN req : GetOneSave(s)
  \/ \E s \in DOMAIN req : GetOneLog(s, "ok")
  \/ \E s \in DOMAIN req : StartToggleFeatured(s, Moderator, 1)
  \/ \E s \in DOMAIN req : ToggleFind(s)
  \/ \E s \in DOMAIN req : ToggleUpdate(s)
  \/ \E s \in DOMAIN req : ToggleLog(s, "fail")

SpecRace == Init /\ [][NextRace]_vars

\* C20: the read-then-write operations are not guarded against concurrent
\* requests: what getOne with trackView writes is the views it read plus
\* one, and what toggleFeatured writes is the negation of the featured it
\* read, whatever the stored post holds at the time of the write (the last
\* write wins).
C20_LastWriteWins ==
  [][\A s \in DOMAIN req :
       /\ (Acting(s) /\ req[s].pc = "g_save" /\ Exists(posts, req[s].id)) =>
            posts'[req[s].id].views = req[s].found.views + 1
       /\ (Acting(s) /\ req[s].pc = "t_update" /\ Exists(posts, req[s].id)) =>
            posts'[req[s].id].featured = ~req[s].found.featured
    ]_vars

\* both lost updates have happened.  Two tracked reads of the post have
\* answered (each left its POST_VIEWED record), and views, 0 at creation, is
\* 1.  After them two toggleFeatured requests that both started on the post
\* with featured = FALSE have both answered 200, and featured is TRUE: it
\* differs from its initial value, where two toggles in sequence restore it.
C20_Witness ==
  /\ Len(logs) = 2
  /\ \A k \in DOMAIN logs : logs[k].action = "POST_VIEWED" /\ logs[k].resourceId = 1
  /\ posts[1].views = 1
  /\ \A s \in DOMAIN req :
       /\ Done(s, "toggleFeatured")
       /\ req[s].code = 200
       /\ req[s].id = 1
       /\ req[s].pre.posts[1].featured = FALSE
  /\ posts[1].featured = TRUE


(***************************************************************************)
(* SpecPurge: hard delete of a post with an image, and the requests that   *)
(* follow it                                                               *)
(***************************************************************************)
NextPurge ==
  \/ \E f \in {NoFile, PngFile} : StartCreate(1, Moderator, BasePost, f)
  \/ \E env \in {"ok", "thumbfail"} : CreateSave(1, env)
  \/ CreateDb(1)
  \/ CreateLog(1, "fail")
  \/ \E u \in Users, i \in PostIds, h \in {"", "true"} : StartDelete(1, u, i, h)
  \/ DeleteFind(1)
  \/ DeleteUpdate(1)
  \/ HardDeleteFind(1)
  \/ \E env \in DeleteEnvs : HardDeleteFile(1, env)
  \/ HardDeleteRemove(1)
  \/ DeleteLog(1, "fail")
  \/ \E i \in PostIds : StartRestore(1, Moderator, i)
  \/ RestoreFind(1)
  \/ RestoreUpdate(1)
  \/ RestoreLog(1, "fail")
  \/ \E i \in PostIds : StartGetOne(1, 0, i, "")
  \/ GetOneFind(1)

SpecPurge == Init /\ [][NextPurge]_vars

\* hardDelete returns the post: its findByIdAndDelete removes the record
HardDeleteReturns(s) ==
  Acting(s) /\ req[s].pc = "h_remove" /\ req'[s].pc = "d_log"

\* an id that was given to a post whose record is no longer stored
Purged(ps, i) == i < nextPost /\ ~Exists(ps, i)

\* what follows a hard delete: the record stays absent, a getOne of the id
\* returns null (404) and a restore of the id is rejected
AfterPurge ==
  /\ \A i \in PostIds : Purged(posts, i) => ~Exists(posts', i)
  /\ \A s \in DOMAIN req :
       /\ (Acting(s) /\ req[s].pc = "g_find" /\ Purged(posts, req[s].id)) =>
            (req'[s].pc = "done" /\ req'[s].code = 404)
       /\ (Acting(s) /\ req[s].pc = "r_find" /\ Purged(posts, req[s].id)) =>
            (req'[s].pc = "done" /\ req'[s].err # "" /\ posts' = posts)

\* C21 as stated: after hardDelete(id, userId) returns a post, the post
\* record is absent from storage and its image file and thumbnail are absent
\* from disk; every later getOne(id) returns null and every later
\* restore(id) is rejected; a failure to delete the image file does not
\* prevent removal of the record.
C21_PurgeRemovesRecordAndFile ==
  [][/\ \A s \in DOMAIN req :
          (Acting(s) /\ req[s].pc = "h_remove" /\ req[s].warn /\ Exists(posts, req[s].id))
            => HardDeleteReturns(s)
     /\ \A s \in DOMAIN req :
          HardDeleteReturns(s) =>
            /\ ~Exists(posts', req[s].id)
            /\ req[s].found.image # 0 =>
                 (req[s].found.image \notin disk' /\ req[s].found.image \notin thumbs')
     /\ AfterPurge
    ]_vars

\* C21 amended: after hardDelete(id, userId) returns a post, the post record
\* is absent from storage, whether or not the deletion of its image file
\* failed; its image file and thumbnail are absent from disk unless that
\* deletion failed, which hardDelete only reports as a warning; every later
\* getOne(id) returns null and every later restore(id) is rejected.
C21_PurgeRemovesRecord ==
  [][/\ \A s \in DOMAIN req :
          (Acting(s) /\ req[s].pc = "h_remove" /\ req[s].warn /\ Exists(posts, req[s].id))
            => HardDeleteReturns(s)
     /\ \A s \in DOMAIN req :
          HardDeleteReturns(s) =>
            /\ ~Exists(posts', req[s].id)
            /\ (req[s].found.image # 0 /\ ~req[s].warn) =>
                 (req[s].found.image \notin disk' /\ req[s].found.image \notin thumbs')
     /\ AfterPurge
    ]_vars

\* a restore of a post that was hard deleted with its image has been
\* rejected: the record is absent and the one file ever saved is gone
C21_Witness ==
  \E s \in DOMAIN req :
    /\ Done(s, "restore")
    /\ req[s].err # ""
    /\ Purged(posts, req[s].id)
    /\ nextFile > 1
    /\ disk = {}
    /\ thumbs = {}


(***************************************************************************)
(* Claims on a rejected edit, checked under Spec                           *)
(***************************************************************************)
\* the stored posts and the files are as the request found them
NothingChanged(r) ==
  /\ posts = r.pre.posts
  /\ disk = r.pre.disk
  /\ thumbs = r.pre.thumbs

\* C22: edit(data, id, userId, image) on a missing or already-deleted post
\* is rejected before any file is written, and an edit whose new image is
\* rejected by the file store deletes nothing: in both cases the stored
\* post, the previous image file and the set of files on disk are unchanged.
C22_RejectedEditChangesNothing ==
  \A s \in DOMAIN req :
    (Done(s, "edit") /\ req[s].code # 400) =>
      /\ (Missing(req[s]) \/ WasDeleted(req[s])) =>
           /\ req[s].err # ""
           /\ req[s].fileName = 0
           /\ NothingChanged(req[s])
      /\ (req[s].image # NoFile /\ ~validateFile(req[s].image)) =>
           /\ req[s].err # ""
           /\ ~req[s].warn
           /\ NothingChanged(req[s])

\* an edit of a post that has an image was rejected because the file store
\* refused the new image: the previous image and its thumbnail are on disk
C22_Witness ==
  \E s \in DOMAIN req :
    /\ Done(s, "edit")
    /\ req[s].image = PdfFile
    /\ req[s].err # ""
    /\ req[s].found.image # 0
    /\ req[s].found.image \in disk
    /\ req[s].found.image \in thumbs
    /\ posts[req[s].id].image = req[s].found.image


(***************************************************************************)
(* Claims on toggleFeatured, checked under SpecStatus                      *)
(***************************************************************************)
\* C23: toggleFeatured(id, userId) on a non-deleted post negates featured
\* and changes no other field of the post except updatedBy; two sequential
\* toggles return featured to its original value; on a missing or deleted
\* post it is rejected and changes nothing.
C23_ToggleNegatesFeatured ==
  /\ \A s \in DOMAIN req :
       Done(s, "toggleFeatured") =>
         LET before == req[s].pre.posts[req[s].id] IN
           /\ before.status \in {"active", "inactive"} =>
                /\ req[s].code = 200
                /\ posts = [req[s].pre.posts EXCEPT ![req[s].id] =
                              [before EXCEPT !.featured = ~before.featured,
                                             !.updatedBy = req[s].user]]
           /\ before.status \in {"deleted", "none"} =>
                /\ req[s].err # ""
                /\ posts = req[s].pre.posts
  /\ \A i \in PostIds, u \in Users, v \in Users :
       LET once == Toggled(posts[i], posts[i], u) IN
         Toggled(once, once, v).featured = posts[i].featured

\* the second of two toggles of a post has answered: featured, negated by
\* the first, is back at the value the post was created with
C23_Witness ==
  \E s \in DOMAIN req :
    /\ Done(s, "toggleFeatured")
    /\ req[s].code = 200
    /\ req[s].pre.posts[req[s].id].featured = TRUE
    /\ posts[req[s].id].featured = FALSE


(***************************************************************************)
(* Claims on soft delete and restore, checked under Spec                   *)
(***************************************************************************)
\* the request is served by the soft delete of the service
IsSoftDelete(r) == r.op = "delete" /\ ~(r.flag = "true" /\ isOwner(r.user))

\* the fields of a post that a soft delete and a restore leave alone
SameContent(p, q) ==
  /\ p.title = q.title /\ p.body = q.body /\ p.price = q.price
  /\ p.category = q.category /\ p.tags = q.tags /\ p.featured = q.featured
  /\ p.views = q.views /\ p.image = q.image

\* C24: soft delete is reversible: for a post with status active, delete(id)
\* followed by restore(id) returns the post to status active with title,
\* body, price, category, tags, featured, views and image unchanged, and the
\* post's image file stays on disk throughout; a second delete on an
\* already-deleted post returns null and changes nothing.
C24_SoftDeleteReversible ==
  /\ \A s \in DOMAIN req :
       (Done(s, "delete") /\ IsSoftDelete(req[s])) =>
         LET before == req[s].pre.posts[req[s].id] IN
           /\ before.status = "active" =>
                /\ req[s].code = 200
                /\ posts[req[s].id].status = "deleted"
                /\ SameContent(posts[req[s].id], before)
                /\ disk = req[s].pre.disk /\ thumbs = req[s].pre.thumbs
           /\ before.status = "deleted" =>
                /\ req[s].code = 404
                /\ NothingChanged(req[s])
  /\ \A s \in DOMAIN req :
       (Done(s, "restore") /\ req[s].code = 200) =>
         LET before == req[s].pre.posts[req[s].id] IN
           /\ before.status = "deleted"
           /\ posts[req[s].id].status = "active"
           /\ SameContent(posts[req[s].id], before)
           /\ disk = req[s].pre.disk /\ thumbs = req[s].pre.thumbs
  /\ \A i \in PostIds, u \in Users, v \in Users :
       posts[i].status = "active" =>
         LET back == Restored(SoftDelete(posts[i], u), v) IN
           back.status = "active" /\ SameContent(back, posts[i])

\* a soft-deleted post with an image has been restored: it is active, and
\* its image file and thumbnail are on disk
C24_Witness ==
  \E s \in DOMAIN req :
    /\ Done(s, "restore")
    /\ req[s].code = 200
    /\ req[s].pre.posts[req[s].id].status = "deleted"
    /\ posts[req[s].id].status = "active"
    /\ posts[req[s].id].image \in disk
    /\ posts[req[s].id].image \in thumbs


(***************************************************************************)
(* Claims on the images of the posts and the files, checked under Spec     *)
(***************************************************************************)
\* C25: whenever no request is in progress, after any sequence of create,
\* edit, delete, restore and hardDelete requests (including requests that
\* fail at the database write), every stored post's non-null image field
\* names a file that exists on disk, and every file in the asset directory
\* is named by the image field of some stored post (no dangling reference
\* and no orphan file).
C25_NoDanglingNoOrphan ==
  (\A s \in DOMAIN req : Free(s)) =>
    /\ \A i \in PostIds :
         (Exists(posts, i) /\ posts[i].image # 0) => posts[i].image \in disk
    /\ \A f \in disk :
         \E i \in PostIds : Exists(posts, i) /\ posts[i].image = f


(***************************************************************************)
(* SpecEditRace: an edit of a post while another request deletes it        *)
(***************************************************************************)
NextEditRace ==
  \/ \E f \in {NoFile, PngFile} : StartCreate(2, Moderator, BasePost, f)
  \/ CreateSave(2, "ok")
  \/ CreateDb(2)
  \/ CreateLog(2, "fail")
  \/ \E d \in {NoData, [NoData EXCEPT !.status = "active"]}, f \in {NoFile, PngFile} :
       StartEdit(1, Moderator, 1, d, f)
  \/ EditFind(1)
  \/ EditSave(1, "ok")
  \/ EditDeleteOld(1, "ok")
  \/ EditUpdate(1)
  \/ EditLog(1, "fail")
  \/ \E h \in {"", "true"} : StartDelete(2, Owner, 1, h)
  \/ DeleteFind(2)
  \/ DeleteUpdate(2)
  \/ HardDeleteFind(2)
  \/ HardDeleteFile(2, "ok")
  \/ HardDeleteRemove(2)
  \/ DeleteLog(2, "fail")

SpecEditRace == Init /\ [][NextEditRace]_vars

\* C26: under every interleaving of an edit request with a delete or
\* hardDelete request on the same post, edit never writes to a post whose
\* status is deleted at the time of the write, never turns a soft-deleted
\* post back into a non-deleted one, and never leaves a newly saved image on
\* disk for a post that no longer exists.
C26_EditRespectsDelete ==
  [][\A s \in DOMAIN req :
       (Acting(s) /\ req[s].op = "edit" /\ req[s].id \in PostIds) =>
         LET id == req[s].id IN
           /\ posts'[id] # posts[id] => posts[id].status # "deleted"
           /\ posts[id].status = "deleted" => posts'[id].status = "deleted"
           /\ (req'[s].pc = "done" /\ ~Exists(posts', id) /\ req'[s].fileName # 0) =>
                req'[s].fileName \notin disk'
    ]_vars


(***************************************************************************)
(* SpecToken: deactivated moderators and their tokens                      *)
(***************************************************************************)
ModBody == [NoUserData EXCEPT !.username = "mod", !.password = AdminPassword]

NextToken ==
  \/ CreateOwner("admin", AdminPassword)
  \/ StartCreateModerator(1, Owner, ModBody)
  \/ CreateModeratorFind(1)
  \/ CreateModeratorSave(1)
  \/ \E a \in AccountIds, f \in {"true", "false"} : StartSetActive(1, Owner, a, f)
  \/ SetActive(1)
  \/ \E n \in {"admin", "mod"} :
       StartLogin(1, [NoUserData EXCEPT !.username = n, !.password = AdminPassword])
  \/ LoginFind(1)
  \/ LoginCompare(1)
  \/ LoginSave(1)
  \/ \E a \in AccountIds : StartWithToken(1, a, "create", 0, BasePost)
  \/ \E a \in AccountIds, i \in PostIds : StartWithToken(1, a, "delete", i, NoData)
  \/ AuthenticateToken(1)
  \/ CreateDb(1)
  \/ CreateLog(1, "fail")
  \/ DeleteFind(1)
  \/ DeleteUpdate(1)
  \/ DeleteLog(1, "fail")

SpecToken == Init /\ [][NextToken]_vars

\* the user of that name is stored and is not active
IsDeactivated(as, username) ==
  \E a \in AccountIds :
    AccountExists(as, a) /\ as[a].username = username /\ ~as[a].isActive

\* C27: after deactivateModerator(m) completes, every later request that
\* presents a still-unexpired token issued to m is rejected as unauthorized
\* by authenticateToken and every login attempt by m is rejected, until m is
\* made active again; a deactivated user therefore performs no post or
\* category mutation.
C27_DeactivatedIsLockedOut ==
  [][/\ \A s \in DOMAIN req :
          (Acting(s) /\ req[s].pc = "auth") =>
            IF accounts[req[s].token].isActive
            THEN req'[s].pc # "done"
            ELSE req'[s].pc = "done" /\ req'[s].code = 401
     /\ \A s \in DOMAIN req :
          (Acting(s) /\ req[s].pc = "l_find"
           /\ IsDeactivated(accounts, req[s].udata.username)) =>
            (req'[s].pc = "done" /\ req'[s].code = 401)
     /\ (posts' # posts \/ categories' # categories) =>
          \E s \in DOMAIN req :
            Acting(s) /\ req[s].token # 0 /\ accounts[req[s].token].isActive
    ]_vars

\* a moderator who logged in, created a post and was then deactivated has
\* presented the token to delete the post: the answer is 401 and the post
\* is as it was
C27_Witness ==
  \E s \in DOMAIN req :
    /\ Done(s, "delete")
    /\ req[s].code = 401
    /\ accounts[req[s].token].role = "moderator"
    /\ accounts[req[s].token].lastLogin
    /\ ~accounts[req[s].token].isActive
    /\ posts[req[s].id].status = "active"


(***************************************************************************)
(* Claims on the roles of the users, checked under SpecAuth                *)
(***************************************************************************)
Owners(as) == {a \in AccountIds : as[a].role = "owner"}

\* C28: no sequence of API requests changes the role of an existing user or
\* creates a user with role owner: createModerator always stores role
\* moderator, and updateModerator, activateModerator and deactivateModerator
\* only ever modify users whose role is moderator, so the owner account is
\* never modified or deactivated through them and the number of owners
\* never changes.
C28_RolesNeverChange ==
  [][(\E s \in DOMAIN req : Acting(s)) =>
       /\ \A a \in AccountIds :
            /\ AccountExists(accounts, a) => accounts'[a].role = accounts[a].role
            /\ (~AccountExists(accounts, a) /\ AccountExists(accounts', a)) =>
                 accounts'[a].role = "moderator"
            /\ (accounts'[a] # accounts[a] /\ accounts[a].role = "owner") =>
                 \E s \in DOMAIN req : Acting(s) /\ req[s].op = "login"
       /\ Owners(accounts') = Owners(accounts)
    ]_vars


(***************************************************************************)
(* Claims on the category tree, checked under SpecCat                      *)
(***************************************************************************)
\* C29: in every state reachable by any sequence of category create, update
\* and delete requests, no category with isActive = false has a subcategory
\* with isActive = true, and every active category's parentCategory is
\* either null or an existing active category.
C29_CategoryTreeActive ==
  \A c \in CatIds :
    (CatExists(categories, c) /\ categories[c].isActive
     /\ categories[c].parentCategory # 0) =>
      /\ categories[c].parentCategory \in CatIds
      /\ CatExists(categories, categories[c].parentCategory)
      /\ categories[categories[c].parentCategory].isActive


(***************************************************************************)
(* SpecAudit: the activity records of the post routes                      *)
(***************************************************************************)
NextAudit ==
  \/ \E d \in {BasePost, [BasePost EXCEPT !.status = "deleted"]} :
       StartCreate(1, Moderator, d, NoFile)
  \/ CreateDb(1)
  \/ CreateLog(1, "ok")
  \/ \E i \in PostIds : StartEdit(1, Moderator, i, [NoData EXCEPT !.price = 7], NoFile)
  \/ EditFind(1)
  \/ EditUpdate(1)
  \/ EditLog(1, "ok")
  \/ \E u \in Users, i \in PostIds, h \in {"", "true"} : StartDelete(1, u, i, h)
  \/ DeleteFind(1)
  \/ DeleteUpdate(1)
  \/ HardDeleteFind(1)
  \/ HardDeleteRemove(1)
  \/ DeleteLog(1, "ok")
  \/ \E u \in Users, i \in PostIds : StartRestore(1, u, i)
  \/ RestoreFind(1)
  \/ RestoreUpdate(1)
  \/ RestoreLog(1, "ok")
  \/ \E u \in Users, i \in PostIds : StartToggleFeatured(1, u, i)
  \/ ToggleFind(1)
  \/ ToggleUpdate(1)
  \/ ToggleLog(1, "ok")

SpecAudit == Init /\ [][NextAudit]_vars

\* the positions of the post handlers at their logActivity call
PostLogPcs == {"c_log", "e_log", "d_log", "r_log", "t_log"}

\* C30: every successful post create, edit, delete, restore and
\* toggleFeatured request appends exactly one activity record carrying the
\* acting user and the post id, existing activity records are never
\* modified or removed, and the record's details describe the operation
\* actually performed: in particular deleteType is 'hard' exactly when the
\* post record was permanently removed and 'soft' exactly when only its
\* status was set to deleted.
C30_AuditRecordsFaithful ==
  [][/\ Len(logs') >= Len(logs)
     /\ SubSeq(logs', 1, Len(logs)) = logs
     /\ \A s \in DOMAIN req :
          (Acting(s) /\ req[s].pc \in PostLogPcs /\ req'[s].code \in {200, 201}) =>
            /\ Len(logs') = Len(logs) + 1
            /\ logs'[Len(logs')].user = req[s].user
            /\ logs'[Len(logs')].resourceId = req[s].id
            /\ req[s].op = "delete" =>
                 /\ logs'[Len(logs')].details = "hard" <=> ~Exists(posts, req[s].id)
                 /\ logs'[Len(logs')].details = "soft" <=>
                      posts[req[s].id].status = "deleted"
    ]_vars

====
